---- MODULE Spec2Model ----
(***************************************************************************)
(* A model of the ClickUp "[system]" block harvester                      *)
(* (server/services/clickup-system.js): the retry wrapper withBackoff,    *)
(* the bounded concurrency runner mapLimit, the field normalisers and the *)
(* visibility rule of extractAllSystemEntries, and the aggregation done   *)
(* by harvestSystemMessagesFromDocs, together with prepareSystemSource    *)
(* and the delimiter and line scan on the text of a page body, the format *)
(* fallback of fetchPageBody, the CLI helper that writes the artifact and *)
(* the GET /api/status handler of server/index.js.                        *)
(*                                                                         *)
(* Text is modelled as a sequence of one-character strings, so that       *)
(* trimming, lower-casing and stripping of trailing punctuation are       *)
(* computed and not assumed.  The JavaScript value undefined is Absent.    *)
(***************************************************************************)
EXTENDS Integers, Sequences, FiniteSets, TLC

VARIABLES
    \* ---- withBackoff ----
    bTries,      \* parameter tries
    bBase,       \* parameter baseDelay
    bI,          \* loop counter i
    bDelay,      \* local delay
    bPc,         \* "call" (fn() in flight), "sleep" (timer pending), "returned", "raised"
    bCalls,      \* sequence of the outcomes of the fn() invocations made so far
    bSleeps,     \* sequence of the delays slept so far
    bResult,     \* the body returned, or the status of the error raised
    \* ---- mapLimit ----
    items,       \* parameter items
    limit,       \* parameter limit
    nextI,       \* the shared counter i
    results,     \* the results array
    runner,      \* runner -> [pc, idx, out]
    poolPc,      \* "idle", "running", "returned", "rejected"
    invoked,     \* sequence of the indices the worker was invoked with, in order
    threw,       \* set of indices whose worker invocation threw
    \* ---- extractAllSystemEntries, one block ----
    blk,         \* the block's fields as captured by the key/value regex
    pPc,         \* "parse", "done"
    pOut,        \* the entries emitted for the block
    \* ---- harvestSystemMessagesFromDocs ----
    hPc,         \* "listDocs", "listPages", "bodies", "done", "failed"
    docs,        \* the documents listAllDocs returned
    docIdx,      \* index of the document being processed
    messages,    \* the messages array
    snapshot,    \* the value the run resolved with
    cutoff,      \* cutoffMs
    listed,      \* number of pages the page listings have returned so far
    listings,    \* per document processed: how its page listing request ended
    fetches,     \* the page-body fetches that have completed, and how
    \* ---- prepareSystemSource / extractAllSystemEntries on a text ----
    src,         \* the text handed in
    tPc,         \* "start", "prepared", "reprepared", "extracted"
    prep,        \* the results of the successive applications of prepareSystemSource
    tOut,        \* the entries extractAllSystemEntries returned
    \* ---- fetchPageBody ----
    fIdx,        \* index into fmts of the format being requested
    fPc,         \* "request" (a request is in flight), "returned"
    fReqs,       \* the formats requested so far, with the outcome of each
    fResult,     \* the string returned
    \* ---- the artifact, the CLI helper and GET /api/status ----
    outFile,     \* data/system.json
    cliPc,       \* "running", "wrote", "exit1"
    response,    \* the last response of GET /api/status
    \* ---- collectSystemFromDoc (the recursive collector) ----
    cBound,      \* MAX_DEPTH
    cCutoff,     \* cutoffMs of the collector (0: no cutoff)
    cStack,      \* the pending calls of collectSystemFromDoc, innermost last
    cLog,        \* the requests issued so far, in order
    cDone,       \* how the requests that completed ended
    cRet,        \* what the call on the root document resolved with
    \* ---- the line loop of extractAllSystemEntries on one block ----
    lLines,      \* innerRaw.split(/\r?\n/)
    lIdx,        \* number of lines consumed
    lObj,        \* obj
    lKey,        \* currentKey
    lPrev,       \* obj and currentKey before the last line consumed
    \* ---- module load ----
    env,         \* process.env: CLICKUP_TOKEN, CLICKUP_WORKSPACE_ID, CLICKUP_TEAM_ID
    \* ---- fetchPageBody with the attempts of withBackoff ----
    pageRequests, \* number of requests issued for the page so far
    \* ---- listAllDocs ----
    dPc,         \* "request" (a listing request in flight), "returned", "raised"
    dCursor,     \* next_cursor
    dOut,        \* docs
    dReqs,       \* the requests issued, in order: the cursor sent, the response
    dFilter,     \* whether DOC_NAME_FILTER is set
    dRet,        \* what the call settled with
    \* ---- a harvester process overwriting the artifact ----
    wData,       \* the snapshot being written and how far the write has got
    wDone        \* the snapshots whose write has completed

bvars == <<bTries, bBase, bI, bDelay, bPc, bCalls, bSleeps, bResult>>
mvars == <<items, limit, nextI, results, runner, poolPc, invoked, threw>>
pvars == <<blk, pPc, pOut>>
hvars == <<hPc, docs, docIdx, messages, snapshot, cutoff, listed, listings, fetches>>
tvars == <<src, tPc, prep, tOut>>
fvars == <<fIdx, fPc, fReqs, fResult>>
svars == <<outFile, cliPc, response>>
xvars == <<tvars, fvars, svars>>
cvars == <<cBound, cCutoff, cStack, cLog, cDone, cRet>>
lvars == <<lLines, lIdx, lObj, lKey, lPrev>>
dvars == <<dPc, dCursor, dOut, dReqs, dFilter, dRet>>
wvars == <<wData, wDone>>
zvars == <<pageRequests, dvars, wvars>>
yvars == <<cvars, lvars, env, zvars>>
vars  == <<bvars, mvars, pvars, hvars, xvars, yvars>>

(***************************************************************************)
(* Text helpers                                                            *)
(***************************************************************************)
Absent == <<"undefined">>

UpperChars == <<"A","B","C","D","E","F","G","H","I","J","K","L","M",
                "N","O","P","Q","R","S","T","U","V","W","X","Y","Z">>
LowerChars == <<"a","b","c","d","e","f","g","h","i","j","k","l","m",
                "n","o","p","q","r","s","t","u","v","w","x","y","z">>

IsSpace(c) == c \in {" ", "\t", "\n", "\r"}

RECURSIVE TrimStart(_)
TrimStart(s) ==
    IF s # <<>> /\ IsSpace(Head(s)) THEN TrimStart(Tail(s)) ELSE s

RECURSIVE TrimEnd(_)
TrimEnd(s) ==
    IF s # <<>> /\ IsSpace(s[Len(s)]) THEN TrimEnd(SubSeq(s, 1, Len(s) - 1)) ELSE s

\* String.prototype.trim
Trim(s) == TrimEnd(TrimStart(s))

LowerChar(c) ==
    IF \E k \in 1..Len(UpperChars) : UpperChars[k] = c
    THEN LowerChars[CHOOSE k \in 1..Len(UpperChars) : UpperChars[k] = c]
    ELSE c

\* String.prototype.toLowerCase
ToLowerCase(s) == [k \in 1..Len(s) |-> LowerChar(s[k])]

\* s.replace(/[,;]+$/, "")
RECURSIVE StripTrailingPunct(_)
StripTrailingPunct(s) ==
    IF s # <<>> /\ s[Len(s)] \in {",", ";"}
    THEN StripTrailingPunct(SubSeq(s, 1, Len(s) - 1))
    ELSE s

\* (s || "")
OrEmpty(s) == IF s = Absent THEN <<>> ELSE s

\* (s || "").toString().trim().toLowerCase().replace(/[,;]+$/, "")
NormToken(s) == StripTrailingPunct(ToLowerCase(Trim(OrEmpty(s))))

\* the words the normalisers compare with
wWarn     == <<"w","a","r","n">>
wWarning  == <<"w","a","r","n","i","n","g">>
wIncident == <<"i","n","c","i","d","e","n","t">>
wDegraded == <<"d","e","g","r","a","d","e","d">>
wOk       == <<"o","k">>
wError    == <<"e","r","r","o","r">>
wYes      == <<"y","e","s">>
wNo       == <<"n","o">>
wTrue     == <<"t","r","u","e">>
wFalse    == <<"f","a","l","s","e">>
wOne      == <<"1">>
wZero     == <<"0">>
wOn       == <<"o","n">>
wOff      == <<"o","f","f">>
wSystemMessage == <<"S","y","s","t","e","m"," ","m","e","s","s","a","g","e">>

(***************************************************************************)
(* Field normalisers                                                       *)
(***************************************************************************)
normalizeStatusNoDefault(s) ==
    LET v == NormToken(s) IN
    IF v = wWarn THEN "warning"
    ELSE IF v = wIncident THEN "error"
    ELSE IF v = wDegraded THEN "warning"
    ELSE IF v = wOk THEN "ok"
    ELSE IF v = wWarning THEN "warning"
    ELSE IF v = wError THEN "error"
    ELSE "unknown"

normalizeStatus(s) ==
    LET v == NormToken(s) IN
    IF v = wWarn THEN "warning"
    ELSE IF v = wIncident THEN "error"
    ELSE IF v = wDegraded THEN "warning"
    ELSE IF v = wOk THEN "ok"
    ELSE IF v = wWarning THEN "warning"
    ELSE IF v = wError THEN "error"
    ELSE "ok"

normalizeSolved(s) ==
    LET v == NormToken(s) IN
    IF v \in {wYes, wTrue, wOne} THEN "yes"
    ELSE IF v \in {wNo, wFalse, wZero} THEN "no"
    ELSE "no"

normalizeDisplayDefaultYes(s) ==
    LET v == NormToken(s) IN
    IF v \in {wNo, wFalse, wZero, wOff} THEN "no"
    ELSE "yes"

normalizeDisplay(s) ==
    LET v == NormToken(s) IN
    IF v \in {wYes, wTrue, wOne, wOn} THEN "yes"
    ELSE IF v \in {wNo, wFalse, wZero, wOff} THEN "no"
    ELSE ""

(***************************************************************************)
(* parseDomains                                                            *)
(***************************************************************************)
\* String.prototype.split(","): the pieces between the commas
RECURSIVE SplitComma(_, _)
SplitComma(s, cur) ==
    LET commas == { k \in 1..Len(s) : s[k] = "," } IN
    IF commas = {} THEN <<cur \o s>>
    ELSE LET first == CHOOSE k \in commas : \A j \in commas : k <= j
         IN <<cur \o SubSeq(s, 1, first - 1)>> \o SplitComma(SubSeq(s, first + 1, Len(s)), <<>>)

wWwwDot == <<"w","w","w",".">>
wAt     == <<"@">>

StartsWith(s, pre) == Len(s) >= Len(pre) /\ SubSeq(s, 1, Len(pre)) = pre

StripWww(x) == IF StartsWith(x, wWwwDot) THEN SubSeq(x, 5, Len(x)) ELSE x

\* Array.from(new Set(parts)): first occurrences, in order
RECURSIVE Unique(_, _)
Unique(parts, acc) ==
    IF parts = <<>> THEN acc
    ELSE IF \E k \in 1..Len(acc) : acc[k] = Head(parts)
         THEN Unique(Tail(parts), acc)
         ELSE Unique(Tail(parts), Append(acc, Head(parts)))

parseDomainsWholeValueOnly(v) ==
    IF v = Absent THEN <<>>
    ELSE LET raw == Trim(v) IN
         IF raw = <<>> \/ raw = wAt THEN <<>>
         ELSE LET pieces  == SplitComma(raw, <<>>)
                  lowered == [k \in 1..Len(pieces) |-> ToLowerCase(Trim(pieces[k]))]
                  kept    == SelectSeq(lowered, LAMBDA x : x # <<>>)
                  parts   == [k \in 1..Len(kept) |-> StripWww(kept[k])]
              IN Unique(parts, <<>>)

parseDomains(v) ==
    IF v = Absent THEN <<>>
    ELSE LET raw == Trim(v) IN
         IF raw = <<>> \/ raw = wAt THEN <<>>
         ELSE LET pieces  == SplitComma(raw, <<>>)
                  lowered == [k \in 1..Len(pieces) |-> ToLowerCase(Trim(pieces[k]))]
                  kept    == SelectSeq(lowered, LAMBDA x : x # <<>>)
                  parts   == [k \in 1..Len(kept) |-> StripWww(kept[k])]
              IN IF \E k \in 1..Len(parts) : parts[k] = wAt THEN <<>>
                 ELSE Unique(parts, <<>>)

(***************************************************************************)
(* extractAllSystemEntries: the scan of one block's lines                  *)
(*                                                                         *)
(* A line is  [kind |-> "kv", key, raw]  when it matches the key/value     *)
(* regex (key = capture 1, raw = capture 2),  [kind |-> "blank"]  when it  *)
(* is empty after trimming, and  [kind |-> "text", raw]  otherwise (raw is *)
(* the untrimmed line).  obj is a function from the keys seen so far to    *)
(* their values.                                                           *)
(***************************************************************************)
kName    == <<"n","a","m","e">>
kStatus  == <<"s","t","a","t","u","s">>
kDisplay == <<"d","i","s","p","l","a","y">>
kSolved  == <<"s","o","l","v","e","d">>
kDomain  == <<"d","o","m","a","i","n">>
kMessage == <<"m","e","s","s","a","g","e">>

\* obj[k], undefined when the key was never set
Get(obj, k) == IF k \in DOMAIN obj THEN obj[k] ELSE Absent

Put(obj, k, v) == [x \in (DOMAIN obj) \cup {k} |-> IF x = k THEN v ELSE obj[x]]

\* (kv[2] || "").trim().replace(/[,;]+$/, "").trim()
CleanVal(raw) == Trim(StripTrailingPunct(Trim(raw)))

EndsWithNewline(s) == s # <<>> /\ s[Len(s)] = "\n"

AppendBlankNothing(msg) == msg

\* obj.message = (obj.message || "") + "\n"
AppendBlank(msg) == Append(msg, "\n")

AppendContinuationTrimmed(msg, rawLine) ==
    msg \o (IF msg # <<>> /\ ~EndsWithNewline(msg) THEN <<"\n">> ELSE <<>>) \o Trim(rawLine)

\* if (obj.message && !obj.message.endsWith("\n")) obj.message += "\n"; obj.message += rawLine;
AppendContinuation(msg, rawLine) ==
    msg \o (IF msg # <<>> /\ ~EndsWithNewline(msg) THEN <<"\n">> ELSE <<>>) \o rawLine

\* one iteration of the loop over innerRaw.split(/\r?\n/)
ScanLine(st, line) ==
    LET obj == st.obj
        msg == OrEmpty(Get(obj, kMessage))
    IN
    IF line.kind = "blank"
    THEN IF st.currentKey = kMessage
         THEN [st EXCEPT !.obj = Put(obj, kMessage, AppendBlank(msg))]
         ELSE st
    ELSE IF line.kind = "kv"
    THEN LET key == ToLowerCase(line.key)
             val == CleanVal(line.raw)
         IN IF key = kMessage
            THEN [obj |-> Put(obj, kMessage, msg \o val), currentKey |-> kMessage]
            ELSE [obj |-> Put(obj, key, val), currentKey |-> key]
    ELSE IF st.currentKey = kMessage
         THEN [st EXCEPT !.obj = Put(obj, kMessage, AppendContinuation(msg, line.raw))]
         ELSE st

RECURSIVE ScanLines(_, _)
ScanLines(st, lines) ==
    IF lines = <<>> THEN st ELSE ScanLines(ScanLine(st, Head(lines)), Tail(lines))

\* const obj = {}; let currentKey = null; for (const rawLine of ...) ...
ParseObj(lines) == ScanLines([obj |-> <<>>, currentKey |-> Absent], lines).obj

InnerEmptyNever(lines) == FALSE

\* const inner = innerRaw.trim(); if (!inner) continue;
InnerEmpty(lines) == \A k \in 1..Len(lines) : lines[k].kind = "blank"

TruthyWhenDefined(s) == s # Absent

\* a value is truthy unless it is undefined or the empty string
Truthy(s) == s # Absent /\ s # <<>>

(* The visibility decision. *)
IsVisibleDisplayOrSolved(obj) ==
    \/ normalizeDisplay(Get(obj, kDisplay)) = "yes"
    \/ normalizeSolved(Get(obj, kSolved)) = "no"

IsVisibleSolvedFirst(obj) ==
    /\ normalizeSolved(Get(obj, kSolved)) = "no"
    /\ normalizeDisplay(Get(obj, kDisplay)) # "no"

IsVisible(obj) ==
    LET displayNorm == normalizeDisplay(Get(obj, kDisplay)) IN
    IF displayNorm # ""
    THEN displayNorm = "yes"
    ELSE normalizeSolved(Get(obj, kSolved)) = "no"

MakeEntry(obj) ==
    LET displayNorm == normalizeDisplay(Get(obj, kDisplay)) IN
    [ name    |-> IF Truthy(Get(obj, kName)) THEN Get(obj, kName) ELSE wSystemMessage,
      status  |-> normalizeStatus(Get(obj, kStatus)),
      display |-> IF displayNorm # "" THEN displayNorm ELSE "yes",
      domains |-> parseDomains(Get(obj, kDomain)),
      message |-> OrEmpty(Get(obj, kMessage)) ]

\* the entries one [system]...[/system] match contributes
BlockEntries(lines) ==
    IF InnerEmpty(lines) THEN <<>>
    ELSE LET obj == ParseObj(lines) IN
         IF IsVisible(obj) THEN <<MakeEntry(obj)>> ELSE <<>>

\* a page body is the sequence of its blocks, in the order the regex finds them
RECURSIVE extractAllSystemEntries(_)
extractAllSystemEntries(body) ==
    IF body = <<>> THEN <<>>
    ELSE BlockEntries(Head(body)) \o extractAllSystemEntries(Tail(body))

(***************************************************************************)
(* The parse of one block, on inputs drawn from the values authors write   *)
(***************************************************************************)
RawDisplays == { <<"y","e","s">>, <<"Y","E","S">>, <<"o","n">>, <<"T","r","u","e">>, <<"n","o">>, <<"O","f","f">>, <<"0">>, <<"m","a","y","b","e">>, <<>>, <<"y","e","s",";">>, <<"n","o"," ",",">> }

RawSolveds == { <<"n","o">>, <<"y","e","s">>, <<"T","R","U","E">>, <<"f","a","l","s","e">>, <<>>, <<"l","a","t","e","r">>, <<"y","e","s",",">>, <<"1",";">> }

RawStatuses == { <<"w","a","r","n">>, <<"W","a","r","n","i","n","g">>, <<"W","A","R","N"," ",";">>, <<"i","n","c","i","d","e","n","t">>, <<"D","e","g","r","a","d","e","d">>, <<"O","K">>, <<"o","k",",">>, <<"e","r","r","o","r">>, <<"E","R","R","O","R",";",";">>, <<"d","o","w","n">>, <<"s","u","c","c","e","s","s">>, <<>>, <<"w","a","r","n","i","n","g","s">>, <<"w">> }

RawNames == { <<>>, <<"X">>, <<";">> }

RawMessages == { <<"d","o","w","n">> }

KvLine(key, raw) == [kind |-> "kv", key |-> key, raw |-> raw]

\* the line of a field, or no line when the author left the field out
OptLine(key, raw) == IF raw = Absent THEN <<>> ELSE <<KvLine(key, raw)>>

BlockOf(n, st, d, sv, m) ==
    OptLine(kName, n) \o OptLine(kStatus, st) \o OptLine(kDisplay, d)
        \o OptLine(kSolved, sv) \o OptLine(kMessage, m)

Blocks ==
    { BlockOf(n, st, d, sv, m) :
        n  \in RawNames \cup {Absent},
        st \in RawStatuses \cup {Absent},
        d  \in RawDisplays \cup {Absent},
        sv \in RawSolveds \cup {Absent},
        m  \in RawMessages \cup {Absent} }
    \cup { <<[kind |-> "blank"]>> }

NoSnapshot == [overall |-> "none", messages |-> <<>>]

\* variables of the other components, parked
BackoffIdle ==
    /\ bTries = 0 /\ bBase = 0 /\ bI = 0 /\ bDelay = 0 /\ bPc = "idle"
    /\ bCalls = <<>> /\ bSleeps = <<>> /\ bResult = "none"

PoolIdle ==
    /\ items = <<>> /\ limit = 0 /\ nextI = 0 /\ results = <<>>
    /\ runner = <<>> /\ poolPc = "idle" /\ invoked = <<>> /\ threw = {}

ParseIdle == blk = <<>> /\ pPc = "idle" /\ pOut = <<>>

HarvestIdle ==
    /\ hPc = "idle" /\ docs = <<>> /\ docIdx = 0 /\ messages = <<>>
    /\ snapshot = NoSnapshot /\ cutoff = 0 /\ listed = 0
    /\ listings = <<>> /\ fetches = {}

TextIdle == src = <<>> /\ tPc = "idle" /\ prep = <<>> /\ tOut = <<>>

FetchIdle == fIdx = 0 /\ fPc = "idle" /\ fReqs = <<>> /\ fResult = <<>>

NoFile == [kind |-> "missing"]

Unreadable == [kind |-> "unreadable"]

\* JSON.stringify(v), as a text
TextOfJson(v) == [kind |-> "json", value |-> v]

NoResponse == [status |-> 0, body |-> NoFile]

ServeIdle == outFile = NoFile /\ cliPc = "idle" /\ response = NoResponse

CollectIdle ==
    /\ cBound = 0 /\ cCutoff = 0 /\ cStack = <<>> /\ cLog = <<>> /\ cDone = {}
    /\ cRet = [kind |-> "none"]

ScanIdle ==
    /\ lLines = <<>> /\ lIdx = 0 /\ lObj = <<>> /\ lKey = <<"idle">>
    /\ lPrev = [obj |-> <<>>, currentKey |-> <<"idle">>]

NoEnv == [kind |-> "none"]

NoCursor == <<"undefined">>

ListingIdle ==
    /\ dPc = "idle" /\ dCursor = NoCursor /\ dOut = <<>> /\ dReqs = <<>>
    /\ dFilter = FALSE /\ dRet = [kind |-> "none"]

NoWrite == [kind |-> "none"]

WriterIdle == wData = NoWrite /\ wDone = {}

LateIdle == pageRequests = 0 /\ ListingIdle /\ WriterIdle

OthersIdle == CollectIdle /\ ScanIdle /\ env = NoEnv /\ LateIdle

InitParse ==
    /\ blk \in Blocks
    /\ pPc = "parse"
    /\ pOut = <<>>
    /\ BackoffIdle /\ PoolIdle /\ HarvestIdle
    /\ TextIdle /\ FetchIdle /\ ServeIdle
    /\ OthersIdle

\* one iteration of  while ((m = re.exec(plain)) !== null)
ParseBlock ==
    /\ pPc = "parse"
    /\ pOut' = BlockEntries(blk)
    /\ pPc' = "done"
    /\ UNCHANGED <<blk, bvars, mvars, hvars, xvars, yvars>>

NextParse == ParseBlock

SpecParse == InitParse /\ [][NextParse]_vars

\* what the author wrote for a field: the value of its last line, if any
RECURSIVE RawOf(_, _)
RawOf(lines, key) ==
    IF lines = <<>> THEN Absent
    ELSE LET last == lines[Len(lines)] IN
         IF last.kind = "kv" /\ ToLowerCase(last.key) = key THEN last.raw
         ELSE RawOf(SubSeq(lines, 1, Len(lines) - 1), key)

Present(lines, key) == RawOf(lines, key) # Absent

Emitted == pPc = "done" /\ pOut # <<>>

\* the token an author wrote: the value without surrounding blanks and
\* trailing commas or semicolons, in lower case
RECURSIVE DropTail(_)
DropTail(s) ==
    IF s # <<>> /\ (IsSpace(s[Len(s)]) \/ s[Len(s)] \in {",", ";"})
    THEN DropTail(SubSeq(s, 1, Len(s) - 1))
    ELSE s

TokenOf(raw) == ToLowerCase(DropTail(TrimStart(OrEmpty(raw))))

(***************************************************************************)
(* Claims about the parse of one block                                     *)
(***************************************************************************)
DisplayRaw == RawOf(blk, kDisplay)
SolvedRaw  == RawOf(blk, kSolved)
StatusRaw  == RawOf(blk, kStatus)

RecognizedStatus(raw) ==
    TokenOf(raw) \in {wOk, wWarning, wError, wWarn, wIncident, wDegraded}

\* C10: the severity of every emitted entry is one of ok, warning, error,
\* and a status that is missing, empty or no recognized name or alias gives ok.
C10_SeverityEnum ==
    pPc = "done" =>
        \A k \in 1..Len(pOut) :
            /\ pOut[k].status \in {"ok", "warning", "error"}
            /\ ~RecognizedStatus(StatusRaw) => pOut[k].status = "ok"

\* an entry was emitted for a block whose status token is not recognized
C10_Witness ==
    /\ Emitted
    /\ Present(blk, kStatus)
    /\ StatusRaw # <<>>
    /\ ~RecognizedStatus(StatusRaw)
    /\ pOut[1].status = "ok"

(***************************************************************************)
(* parseDomains on the domain field of a block                             *)
(***************************************************************************)
\* the largest number of comma-separated tokens in a domain value explored
MaxTokens == 3

wExampleCom == <<"e","x","a","m","p","l","e",".","c","o","m">>
wFooOrg     == <<"f","o","o",".","o","r","g">>

\* the tokens authors write between the commas
DomainTokens ==
    { wAt, <<" ","@"," ">>, <<"E","x","a","m","p","l","e",".","c","o","m">>, <<" ","w","w","w",".","F","o","o",".","o","r","g">>,
      <<"h","t","t","p","s",":","/","/","w","w","w",".","E","x","a","m","p","l","e",".","c","o","m","/","s","t","a","t","u","s">>, <<"e","x","a","m","p","l","e",".","c","o","m">>, <<>> }

RECURSIVE JoinComma(_)
JoinComma(toks) ==
    IF Len(toks) = 1 THEN toks[1] ELSE toks[1] \o <<",">> \o JoinComma(Tail(toks))

RawDomains == { JoinComma(toks) : toks \in UNION { [1..n -> DomainTokens] : n \in 1..MaxTokens } }

DomainBlocks ==
    { <<KvLine(kName, <<"X">>)>> \o OptLine(kDomain, d) : d \in RawDomains \cup {Absent} }

InitDomains ==
    /\ blk \in DomainBlocks
    /\ pPc = "parse"
    /\ pOut = <<>>
    /\ BackoffIdle /\ PoolIdle /\ HarvestIdle
    /\ TextIdle /\ FetchIdle /\ ServeIdle
    /\ OthersIdle

SpecDomains == InitDomains /\ [][NextParse]_vars

DomainRaw == RawOf(blk, kDomain)

\* the tokens of a comma-separated list, without their surrounding whitespace
TokensOf(raw) ==
    LET pieces == SplitComma(raw, <<>>) IN [k \in 1..Len(pieces) |-> Trim(pieces[k])]

HasAtToken(raw) == \E k \in 1..Len(TokensOf(raw)) : TokensOf(raw)[k] = wAt

\* C11: a domain list in which some token is exactly @ gives the empty
\* audience list, from parseDomains and in the entry emitted for the block.
C11_AtTokenMeansGlobal ==
    (pPc = "done" /\ Present(blk, kDomain) /\ HasAtToken(DomainRaw)) =>
        /\ parseDomains(DomainRaw) = <<>>
        /\ Len(pOut) = 1
        /\ pOut[1].domains = <<>>

\* a list with a host first and the @ token last was parsed
C11_Witness ==
    /\ pPc = "done"
    /\ Present(blk, kDomain)
    /\ Len(TokensOf(DomainRaw)) = 3
    /\ TokensOf(DomainRaw)[1] = wExampleCom
    /\ TokensOf(DomainRaw)[3] = wAt
    /\ pOut[1].domains = <<>>

HasChar(s, c) == \E k \in 1..Len(s) : s[k] = c

\* a host name as the claims want it: no scheme, no path, no leading www.,
\* no upper-case character
NormalizedHost(h) ==
    /\ ~HasChar(h, "/")
    /\ ~HasChar(h, ":")
    /\ ~StartsWith(h, wWwwDot)
    /\ ToLowerCase(h) = h

\* C12: every entry of an emitted block's audience list is a normalized
\* host name, whatever the author wrote as domain tokens.
C12_AudienceNormalizedHosts ==
    pPc = "done" =>
        \A k \in 1..Len(pOut) :
            \A j \in 1..Len(pOut[k].domains) : NormalizedHost(pOut[k].domains[j])

(***************************************************************************)
(* prepareSystemSource and the text side of extractAllSystemEntries        *)
(*                                                                         *)
(* A zero-width character is written as one element of the form "<200B>".  *)
(***************************************************************************)
ZeroWidth == {"<200B>", "<200C>", "<200D>", "<FEFF>"}

\* const map = { "&amp;": "&", "&lt;": "<", "&gt;": ">", "&quot;": '"', "&#39;": "'" };
Entities ==
    << [ent |-> <<"&","a","m","p",";">>,     ch |-> "&"],
       [ent |-> <<"&","l","t",";">>,         ch |-> "<"],
       [ent |-> <<"&","g","t",";">>,         ch |-> ">"],
       [ent |-> <<"&","q","u","o","t",";">>, ch |-> "\""],
       [ent |-> <<"&","#","3","9",";">>,     ch |-> "'"] >>

\* the text has w at position i
StartsAt(s, i, w) ==
    /\ i + Len(w) - 1 <= Len(s)
    /\ SubSeq(s, i, i + Len(w) - 1) = w

\* the first of a set of positions, 0 when there is none
FirstOf(S) == IF S = {} THEN 0 ELSE CHOOSE k \in S : \A j \in S : k <= j

EntityAt(s, i) == \E e \in 1..Len(Entities) : StartsAt(s, i, Entities[e].ent)

\* s.replace(/&(amp|lt|gt|quot|#39);/g, m => map[m] || m): one pass, left to right
RECURSIVE DecodeEntities(_)
DecodeEntities(s) ==
    LET i == FirstOf({k \in 1..Len(s) : EntityAt(s, k)}) IN
    IF i = 0 THEN s
    ELSE LET e == CHOOSE e \in 1..Len(Entities) : StartsAt(s, i, Entities[e].ent)
         IN SubSeq(s, 1, i - 1) \o <<Entities[e].ch>> \o
            DecodeEntities(SubSeq(s, i + Len(Entities[e].ent), Len(s)))

\* s.replace(/\\\[/g, "["): every backslash followed by c becomes c
RECURSIVE Unescape(_, _)
Unescape(s, c) ==
    LET i == FirstOf({k \in 1..Len(s) : StartsAt(s, k, <<"\\", c>>)}) IN
    IF i = 0 THEN s
    ELSE SubSeq(s, 1, i - 1) \o <<c>> \o Unescape(SubSeq(s, i + 2, Len(s)), c)

\* s.replace(/[\u200B-\u200D\uFEFF]/g, "")
RemoveZeroWidth(s) == SelectSeq(s, LAMBDA c : c \notin ZeroWidth)

prepareSystemSource(v) ==
    RemoveZeroWidth(Unescape(Unescape(DecodeEntities(v), "["), "]"))

wOpen  == <<"[","s","y","s","t","e","m","]">>
wClose == <<"[","/","s","y","s","t","e","m","]">>

\* the text matches the delimiter at position i, whatever the case (flag i)
MatchesAt(s, i, w) ==
    /\ i + Len(w) - 1 <= Len(s)
    /\ ToLowerCase(SubSeq(s, i, i + Len(w) - 1)) = w

\* the last position at which the delimiter matches: a greedy match
IndexOfLast(s, i, w) ==
    0 - FirstOf({0 - k : k \in {j \in 1..Len(s) : j >= i /\ MatchesAt(s, j, w)}})

\* the first position >= i at which the delimiter w matches, 0 when none does
IndexOfFrom(s, i, w) ==
    FirstOf({k \in 1..Len(s) : k >= i /\ MatchesAt(s, k, w)})

\* innerRaw.split(/\r?\n/)
RECURSIVE SplitLines(_)
SplitLines(s) ==
    LET i == FirstOf({k \in 1..Len(s) : s[k] = "\n"}) IN
    IF i = 0 THEN <<s>>
    ELSE LET stop == IF i >= 2 /\ s[i - 1] = "\r" THEN i - 2 ELSE i - 1
         IN <<SubSeq(s, 1, stop)>> \o SplitLines(SubSeq(s, i + 1, Len(s)))

Digits == {"0","1","2","3","4","5","6","7","8","9"}

\* [A-Za-z0-9_.-]
IsKeyChar(c) ==
    \/ \E k \in 1..Len(UpperChars) : UpperChars[k] = c \/ LowerChars[k] = c
    \/ c \in Digits
    \/ c \in {"_", ".", "-"}

\* the length of the longest prefix of key characters
KeyLen(s) ==
    LET i == FirstOf({k \in 1..Len(s) : ~IsKeyChar(s[k])}) IN
    IF i = 0 THEN Len(s) ELSE i - 1

\* "." of the regex matches no line terminator
NoLineTerminator(s) == \A k \in 1..Len(s) : s[k] \notin {"\n", "\r"}

\* lineTrimmed.match(/^([A-Za-z0-9_.-]+)\s*[:=]\s*(.*)$/) and the two other
\* kinds of line
ClassifyLine(rawLine) ==
    LET lineTrimmed == Trim(rawLine)
        n     == KeyLen(lineTrimmed)
        after == TrimStart(SubSeq(lineTrimmed, n + 1, Len(lineTrimmed)))
        value == TrimStart(Tail(after))
    IN IF lineTrimmed = <<>> THEN [kind |-> "blank"]
       ELSE IF n >= 1 /\ after # <<>> /\ Head(after) \in {":", "="} /\ NoLineTerminator(value)
            THEN KvLine(SubSeq(lineTrimmed, 1, n), value)
            ELSE [kind |-> "text", raw |-> rawLine]

LinesOf(innerRaw) ==
    LET ls == SplitLines(innerRaw) IN [k \in 1..Len(ls) |-> ClassifyLine(ls[k])]

\* the matches of /\[system\]([\s\S]*?)\[\/system\]/gi from position i on,
\* each as the lines of its capture
RECURSIVE SystemBlocksFrom(_, _)
SystemBlocksFrom(plain, i) ==
    LET open == IndexOfFrom(plain, i, wOpen) IN
    IF open = 0 THEN <<>>
    ELSE LET close == IndexOfFrom(plain, open + Len(wOpen), wClose) IN
         IF close = 0 THEN <<>>
         ELSE <<LinesOf(SubSeq(plain, open + Len(wOpen), close - 1))>> \o
              SystemBlocksFrom(plain, close + Len(wClose))

SystemBlocks(plain) == SystemBlocksFrom(plain, 1)

\* extractAllSystemEntries on the text of a page body
extractAllSystemEntriesOfText(body) ==
    extractAllSystemEntries(SystemBlocks(prepareSystemSource(body)))

\* the largest number of pieces a text explored is put together from
MaxPieces == 3

TextPieces ==
    { <<"&">>, <<"a","m","p",";">>, <<"l","t",";">>, <<"&","a","m","p",";">>,
      <<"&","l","t",";">>, <<"\\">>, <<"[">>, <<"]">>, <<"<200B>">>, <<"a">> }

RECURSIVE Concat(_)
Concat(ps) == IF ps = <<>> THEN <<>> ELSE Head(ps) \o Concat(Tail(ps))

\* the page body of the parser's documented example, one field per line
ExampleBody ==
    <<"[","s","y","s","t","e","m","]","\n","n","a","m","e",":"," ","A","P","I"," ","d","e","g","r","a","d","e","d","\n","s","t","a","t","u","s",":"," ","w","a","r","n","\n","d","i","s","p","l","a","y",":"," ","y","e","s","\n","d","o","m","a","i","n",":"," ","E","x","a","m","p","l","e",".","c","o","m",","," ","w","w","w",".","F","o","o",".","o","r","g","\n","m","e","s","s","a","g","e",":"," ","P","a","r","t","i","a","l"," ","o","u","t","a","g","e","s"," ","e","x","p","e","c","t","e","d",".","\n","[","/","s","y","s","t","e","m","]">>

Texts ==
    { Concat(ps) : ps \in UNION { [1..n -> TextPieces] : n \in 0..MaxPieces } }
        \cup {ExampleBody}

InitText ==
    /\ src \in Texts
    /\ tPc = "start"
    /\ prep = <<>>
    /\ tOut = <<>>
    /\ BackoffIdle /\ PoolIdle /\ ParseIdle /\ HarvestIdle
    /\ FetchIdle /\ ServeIdle
    /\ OthersIdle

\* prepareSystemSource(src)
PrepareSource ==
    /\ tPc = "start"
    /\ prep' = <<prepareSystemSource(src)>>
    /\ tPc' = "prepared"
    /\ UNCHANGED <<src, tOut, bvars, mvars, pvars, hvars, fvars, svars, yvars>>

\* prepareSystemSource applied to its own result
PrepareAgain ==
    /\ tPc = "prepared"
    /\ prep' = Append(prep, prepareSystemSource(prep[1]))
    /\ tPc' = "reprepared"
    /\ UNCHANGED <<src, tOut, bvars, mvars, pvars, hvars, fvars, svars, yvars>>

\* extractAllSystemEntries(src)
ExtractEntries ==
    /\ tPc = "start"
    /\ tOut' = extractAllSystemEntriesOfText(src)
    /\ tPc' = "extracted"
    /\ UNCHANGED <<src, prep, bvars, mvars, pvars, hvars, fvars, svars, yvars>>

NextText == PrepareSource \/ PrepareAgain \/ ExtractEntries

SpecText == InitText /\ [][NextText]_vars

\* C13: prepareSystemSource applied to its own result changes nothing.
C13_PrepareIdempotent ==
    tPc = "reprepared" => prep[2] = prep[1]

wApiDegraded == <<"A","P","I"," ","d","e","g","r","a","d","e","d">>
wPartialOutages == <<"P","a","r","t","i","a","l"," ","o","u","t","a","g","e","s"," ","e","x","p","e","c","t","e","d",".">>

\* C14: the documented example body gives exactly one entry: name
\* "API degraded", severity warning, visible, audience example.com and
\* foo.org, message "Partial outages expected.".
C14_ExampleEntry ==
    (tPc = "extracted" /\ src = ExampleBody) =>
        tOut = << [ name    |-> wApiDegraded,
                    status  |-> "warning",
                    display |-> "yes",
                    domains |-> <<wExampleCom, wFooOrg>>,
                    message |-> wPartialOutages ] >>

NameRaw == RawOf(blk, kName)

\* the block says display: yes, or says nothing about display and solved
PlainlyVisible ==
    \/ TokenOf(DisplayRaw) = wYes
    \/ ~Present(blk, kDisplay) /\ ~Present(blk, kSolved)

\* C30: the name of every emitted entry is a non-empty text; a visible
\* block with some content whose name is absent, or empty once cleaned, is
\* emitted with the name "System message".
C30_NameNeverEmpty ==
    (pPc = "done") =>
        /\ \A k \in 1..Len(pOut) : pOut[k].name # <<>> /\ pOut[k].name # Absent
        /\ ( /\ \E k \in 1..Len(blk) : blk[k].kind # "blank"
             /\ PlainlyVisible
             /\ (~Present(blk, kName) \/ TokenOf(NameRaw) = <<>>) ) =>
              /\ Len(pOut) = 1
              /\ pOut[1].name = wSystemMessage

\* a visible block with the line "name: ;" was emitted under the default name
C30_Witness ==
    /\ Emitted
    /\ NameRaw = <<";">>
    /\ PlainlyVisible
    /\ pOut[1].name = wSystemMessage

YesTokens == {wYes, wTrue, wOne, wOn}

NoTokens == {wNo, wFalse, wZero, wOff}

HasContent == \E k \in 1..Len(blk) : blk[k].kind # "blank"

\* C32: when the display value is one of the yes tokens the block is
\* included, and when it is one of the no tokens the block is excluded,
\* whatever the solved field holds or whether it is there at all.
C32_DisplayPrecedence ==
    (pPc = "done" /\ HasContent) =>
        /\ TokenOf(DisplayRaw) \in YesTokens => Len(pOut) = 1
        /\ (Present(blk, kDisplay) /\ TokenOf(DisplayRaw) \in NoTokens) => pOut = <<>>

\* display: yes with solved: yes was included
C32_Witness ==
    /\ Emitted
    /\ TokenOf(DisplayRaw) = wYes
    /\ TokenOf(SolvedRaw) = wYes

\* the block without its display lines
WithoutDisplay == SelectSeq(blk, LAMBDA ln : ~(ln.kind = "kv" /\ ToLowerCase(ln.key) = kDisplay))

DefaultTries     == 5
DefaultBaseDelay == 600
MaxDelay         == 8000

\* the largest value of tries explored (the call sites use the default)
MaxTries == 6

\* the values of baseDelay explored (the call sites use the default)
BaseDelays == {DefaultBaseDelay, 3000, MaxDelay}

\* err.status of a failed request; 0 stands for an error that carries no
\* status (a network failure), for which both comparisons are false
ErrStatuses == {0, 400, 404, 429, 500, 503, 599, 600}

Min(a, b) == IF a <= b THEN a ELSE b

RetriableNoUpperBound(s) == s = 429 \/ s >= 500

\* const retriable = s === 429 || (s >= 500 && s < 600);
Retriable(s) == s = 429 \/ (s >= 500 /\ s < 600)

MayRetryOffByOne(s, i, tries) == Retriable(s) /\ i < tries

\* if (retriable && i < tries - 1)
MayRetry(s, i, tries) == Retriable(s) /\ i < tries - 1

NextDelayUncapped(delay) == delay * 2

\* delay = Math.min(delay * 2, 8000);
NextDelay(delay) == Min(delay * 2, MaxDelay)

InitBackoff ==
    /\ bTries \in 1..MaxTries
    /\ bBase \in BaseDelays
    /\ bI = 0
    /\ bDelay = bBase
    /\ bPc = "call"
    /\ bCalls = <<>>
    /\ bSleeps = <<>>
    /\ bResult = "none"
    /\ PoolIdle /\ ParseIdle /\ HarvestIdle
    /\ TextIdle /\ FetchIdle /\ ServeIdle
    /\ OthersIdle

\* return await fn();  -- the request of attempt i+1 succeeded
FnResolves ==
    /\ bPc = "call"
    /\ bCalls' = Append(bCalls, [ok |-> TRUE, status |-> 200, attempt |-> bI + 1])
    /\ bPc' = "returned"
    /\ bResult' = [ok |-> TRUE, status |-> 200, attempt |-> bI + 1]
    /\ UNCHANGED <<bTries, bBase, bI, bDelay, bSleeps, mvars, pvars, hvars, xvars, yvars>>

\* catch (err) { ... }  -- the request of attempt i+1 failed with status s
FnRejects(s) ==
    /\ bPc = "call"
    /\ LET err == [ok |-> FALSE, status |-> s, attempt |-> bI + 1] IN
       /\ bCalls' = Append(bCalls, err)
       /\ IF MayRetry(s, bI, bTries)
          THEN /\ bPc' = "sleep"
               /\ bSleeps' = Append(bSleeps, bDelay)
               /\ UNCHANGED bResult
          ELSE /\ bPc' = "raised"
               /\ bResult' = err
               /\ UNCHANGED bSleeps
    /\ UNCHANGED <<bTries, bBase, bI, bDelay, mvars, pvars, hvars, xvars, yvars>>

\* the timer of the sleep fires: delay is doubled, i++ and the loop goes on
TimerFires ==
    /\ bPc = "sleep"
    /\ bDelay' = NextDelay(bDelay)
    /\ bI' = bI + 1
    /\ IF bI + 1 < bTries
       THEN bPc' = "call" /\ UNCHANGED bResult
       ELSE /\ bPc' = "raised"
            /\ bResult' = [ok |-> FALSE, status |-> 0, attempt |-> 0]  \* Error("unreachable")
    /\ UNCHANGED <<bTries, bBase, bCalls, bSleeps, mvars, pvars, hvars, xvars, yvars>>

NextBackoff ==
    \/ FnResolves
    \/ \E s \in ErrStatuses : FnRejects(s)
    \/ TimerFires

SpecBackoff == InitBackoff /\ [][NextBackoff]_vars

\* the number of times fn() has been invoked so far
Invocations == Len(bCalls) + (IF bPc = "call" THEN 1 ELSE 0)

BackoffEnded == bPc \in {"returned", "raised"}

\* a status the claims call retriable
IsRetriableStatus(s) == s = 429 \/ s \in 500..599

RECURSIVE Pow2(_)
Pow2(k) == IF k = 0 THEN 1 ELSE 2 * Pow2(k - 1)

\* C3: fn is invoked at most tries times; every invocation but the first
\* follows a failure with status 429 or 5xx; a failure with any other status
\* is raised to the caller at once, with no sleep and no further invocation.
C3_RetryOnlyOnRetriable ==
    (bPc # "idle") =>
        /\ Invocations <= bTries
        /\ \A k \in 1..Len(bCalls) :
              k < Invocations =>
                  (~bCalls[k].ok /\ IsRetriableStatus(bCalls[k].status))
        /\ \A k \in 1..Len(bCalls) :
              (~bCalls[k].ok /\ ~IsRetriableStatus(bCalls[k].status)) =>
                  /\ k = Len(bCalls)
                  /\ bPc = "raised"
                  /\ bResult = bCalls[k]
                  /\ Invocations = k
                  /\ Len(bSleeps) = k - 1

\* a failure with a non-retriable status ended a call that had retried before
C3_Witness ==
    /\ bPc = "raised"
    /\ Len(bCalls) >= 2
    /\ bCalls[Len(bCalls)].status = 404
    /\ Len(bCalls) < bTries

AllRetriableFailures ==
    \A k \in 1..Len(bCalls) : ~bCalls[k].ok /\ IsRetriableStatus(bCalls[k].status)

\* C4: when every attempt fails with a retriable status the call raises the
\* error of the last attempt after exactly tries invocations and tries - 1
\* sleeps (and not before); a success on attempt k returns that attempt's
\* body and no later attempt is made.
C4_ExhaustionAndSuccess ==
    (bPc # "idle") =>
        /\ AllRetriableFailures =>
              IF Len(bCalls) = bTries
              THEN /\ bPc = "raised"
                   /\ bResult = bCalls[bTries]
                   /\ Invocations = bTries
                   /\ Len(bSleeps) = bTries - 1
              ELSE /\ ~BackoffEnded
                   /\ Len(bCalls) < bTries
        /\ \A k \in 1..Len(bCalls) :
              bCalls[k].ok =>
                  /\ k = Len(bCalls)
                  /\ k <= bTries
                  /\ bPc = "returned"
                  /\ bResult = bCalls[k]
                  /\ bResult.attempt = k
                  /\ Invocations = k

\* all of the default 5 attempts failed with a retriable status
C4_Witness ==
    /\ bTries = DefaultTries
    /\ bPc = "raised"
    /\ Len(bCalls) = DefaultTries
    /\ AllRetriableFailures
    /\ Len(bSleeps) = DefaultTries - 1

\* C5: every invocation but the first is preceded by a sleep; the k-th sleep
\* lasts min(baseDelay * 2^(k-1), 8000) ms, so each sleep is the double of
\* the one before, capped at 8000 ms.
C5_BackoffDelays ==
    (bPc # "idle") =>
        /\ Len(bSleeps) = (IF bPc = "sleep" THEN Invocations ELSE Invocations - 1)
        /\ \A k \in 1..Len(bSleeps) :
              /\ bSleeps[k] = Min(bBase * Pow2(k - 1), MaxDelay)
              /\ bSleeps[k] <= MaxDelay
              /\ k > 1 => bSleeps[k] = Min(2 * bSleeps[k - 1], MaxDelay)
        /\ (bBase = DefaultBaseDelay /\ Len(bSleeps) >= 4) =>
              SubSeq(bSleeps, 1, 4) = <<600, 1200, 2400, 4800>>

\* a call with the default parameters slept 600, 1200, 2400 and 4800 ms
\* before its fifth attempt
C5_Witness ==
    /\ bTries = DefaultTries
    /\ bBase = DefaultBaseDelay
    /\ bPc = "call"
    /\ Invocations = DefaultTries
    /\ bSleeps = <<600, 1200, 2400, 4800>>

(***************************************************************************)
(* mapLimit(items, limit, worker)                                          *)
(*                                                                         *)
(* A runner is one call of run().  It is "await" while its worker          *)
(* invocation is in flight, "settled" once that invocation has resolved or *)
(* thrown and the runner's continuation is queued, and "done" after the    *)
(* break.  idx and nextI count from 0 as in the code; results[k + 1] is    *)
(* the slot of index k.                                                    *)
(***************************************************************************)
MaxItems == 3
MaxLimit == 3

Hole      == [kind |-> "hole"]        \* a slot of new Array(n) never written
Undefined == [kind |-> "undefined"]   \* the value undefined

\* the outcome field of a runner whose worker has not settled
NoOutcome == [threw |-> FALSE, value |-> Hole]

\* what reading a slot yields
SlotValue(x) == IF x = Hole THEN Undefined ELSE x

RunnerCountNoLimit(lim, n) == n

\* Math.min(limit, items.length)
RunnerCount(lim, n) == Min(lim, n)

\* the shared part of  const idx = i++; if (idx >= items.length) break;
\* ... worker(items[idx], idx): the runner's state after claiming index i
Claim(i, n) ==
    IF i >= n THEN [pc |-> "done", idx |-> i, out |-> NoOutcome]
              ELSE [pc |-> "await", idx |-> i, out |-> NoOutcome]

PostIncrementStale(i) == i

\* i++: the value of the shared counter after an index was taken
PostIncrement(i) == i + 1

SettledEffectNoCatch(out) ==
    [slot |-> IF out.threw THEN Hole ELSE out.value, rejects |-> out.threw]

\* try { results[idx] = await worker(...); } catch { results[idx] = undefined; }
SettledEffect(out) ==
    [slot |-> IF out.threw THEN Undefined ELSE out.value, rejects |-> FALSE]

SlotOfFirstFree(res, idx) == 1 + Cardinality({k \in 1..Len(res) : res[k] # Hole})

\* results[idx]: the position of index idx in the sequence results
SlotOf(res, idx) == idx + 1

ResumeReadyInWaves(r) ==
    /\ runner[r].pc = "settled"
    /\ \A q \in 1..Len(runner) : runner[q].pc # "await"

\* the continuation of a runner runs as soon as its own worker has settled
ResumeReady(r) == runner[r].pc = "settled"

InFlight == {r \in 1..Len(runner) : runner[r].pc = "await"}

\* the synchronous part of the call: the array, the counter and the runners,
\* each of which claims an index and invokes its worker before the first await
PoolStart(its, lim) ==
    LET n  == Len(its)
        rc == RunnerCount(lim, n)
    IN /\ items' = its
       /\ limit' = lim
       /\ results' = [k \in 1..n |-> Hole]
       /\ runner' = [r \in 1..rc |-> Claim(r - 1, n)]
       /\ nextI' = rc
       /\ invoked' = [r \in 1..rc |-> r - 1]
       /\ threw' = {}
       /\ poolPc' = "running"

\* the worker invocation of runner r resolves with out.value or throws
PoolSettle(r, out) ==
    /\ poolPc \in {"running", "rejected"}
    /\ r \in 1..Len(runner)
    /\ runner[r].pc = "await"
    /\ runner' = [runner EXCEPT ![r].pc = "settled", ![r].out = out]
    /\ threw' = IF out.threw THEN threw \cup {runner[r].idx} ELSE threw
    /\ UNCHANGED <<items, limit, nextI, results, poolPc, invoked>>

\* the continuation of runner r: store the result, then the next turn of
\* while (true) up to its await or break
PoolResume(r) ==
    /\ poolPc \in {"running", "rejected"}
    /\ r \in 1..Len(runner)
    /\ ResumeReady(r)
    /\ LET eff == SettledEffect(runner[r].out)
           idx == runner[r].idx
       IN IF eff.rejects
          THEN \* the exception leaves run(): Promise.all rejects
               /\ runner' = [runner EXCEPT ![r] = [pc |-> "done", idx |-> idx, out |-> NoOutcome]]
               /\ poolPc' = "rejected"
               /\ UNCHANGED <<results, nextI, invoked>>
          ELSE /\ results' = [results EXCEPT ![SlotOf(results, idx)] = eff.slot]
               /\ runner' = [runner EXCEPT ![r] = Claim(nextI, Len(items))]
               /\ nextI' = PostIncrement(nextI)
               /\ invoked' = IF Claim(nextI, Len(items)).pc = "await"
                             THEN Append(invoked, nextI) ELSE invoked
               /\ UNCHANGED poolPc
    /\ UNCHANGED <<items, limit, threw>>

AnyRunnerDone == \E r \in 1..Len(runner) : runner[r].pc = "done"

\* await Promise.all(...): every call of run() has returned
AllRunnersDone == \A r \in 1..Len(runner) : runner[r].pc = "done"

\* the value a worker of the stand-alone runs resolves with
WorkerValue(item, idx) == [item |-> item, idx |-> idx]

ItemSeqs == UNION { [1..n -> {"a", "b"}] : n \in 0..MaxItems }

InitPool ==
    /\ items \in ItemSeqs
    /\ limit \in 1..MaxLimit
    /\ nextI = 0 /\ results = <<>> /\ runner = <<>>
    /\ poolPc = "idle" /\ invoked = <<>> /\ threw = {}
    /\ BackoffIdle /\ ParseIdle /\ HarvestIdle
    /\ TextIdle /\ FetchIdle /\ ServeIdle
    /\ OthersIdle

MapLimitCall ==
    /\ poolPc = "idle"
    /\ PoolStart(items, limit)
    /\ UNCHANGED <<bvars, pvars, hvars, xvars, yvars>>

WorkerResolves(r) ==
    /\ r \in 1..Len(runner)
    /\ PoolSettle(r, [threw |-> FALSE,
                      value |-> WorkerValue(items[runner[r].idx + 1], runner[r].idx)])
    /\ UNCHANGED <<bvars, pvars, hvars, xvars, yvars>>

WorkerThrows(r) ==
    /\ PoolSettle(r, [threw |-> TRUE, value |-> Undefined])
    /\ UNCHANGED <<bvars, pvars, hvars, xvars, yvars>>

RunnerResumes(r) ==
    /\ PoolResume(r)
    /\ UNCHANGED <<bvars, pvars, hvars, xvars, yvars>>

\* await Promise.all(...); return results;
MapLimitReturns ==
    /\ poolPc = "running"
    /\ AllRunnersDone
    /\ poolPc' = "returned"
    /\ UNCHANGED <<items, limit, nextI, results, runner, invoked, threw>>
    /\ UNCHANGED <<bvars, pvars, hvars, xvars, yvars>>

NextPool ==
    \/ MapLimitCall
    \/ \E r \in 1..MaxLimit : WorkerResolves(r)
    \/ \E r \in 1..MaxLimit : WorkerThrows(r)
    \/ \E r \in 1..MaxLimit : RunnerResumes(r)
    \/ MapLimitReturns

SpecPool == InitPool /\ [][NextPool]_vars

\* C1: mapLimit never rejects, and the sequence it returns has the length
\* of items, with slot k holding worker(items[k])'s result when that
\* invocation resolved and undefined when it threw.
C1_ResultsPerSlot ==
    /\ poolPc # "rejected"
    /\ poolPc = "returned" =>
          /\ Len(results) = Len(items)
          /\ \A k \in 1..Len(items) :
                SlotValue(results[k]) =
                    IF (k - 1) \in threw THEN Undefined
                    ELSE WorkerValue(items[k], k - 1)
          /\ Cardinality({k \in 1..Len(results) : SlotValue(results[k]) = Undefined})
                = Cardinality(threw)

\* a call with more items than runners returned with exactly two absent slots
C1_Witness ==
    /\ poolPc = "returned"
    /\ Len(items) = MaxItems
    /\ limit < Len(items)
    /\ Cardinality(threw) = 2
    /\ \E k \in 1..Len(items) : (k - 1) \notin threw /\ results[k] # Undefined

C2_AtMostLimitInFlight ==
    poolPc \in {"running", "returned"} =>
        /\ Cardinality(InFlight) <= limit
        /\ \A r \in 1..Len(runner) :
              runner[r].pc = "settled" => ENABLED RunnerResumes(r)

C2_FinishedRunnerTakesNext ==
    \A r \in 1..Len(runner) :
        (runner[r].pc = "settled" /\ runner'[r].pc # "settled" /\ nextI < Len(items)) =>
            /\ runner'[r].pc = "await"
            /\ runner'[r].idx = nextI
            /\ nextI' = nextI + 1

\* C2: at most limit worker invocations are in flight at any instant, and a
\* runner whose invocation has completed goes on at once, whatever the other
\* runners are doing, and starts the next unclaimed item if there is one.
C2_BoundedContinuousDrain ==
    /\ [](C2_AtMostLimitInFlight)
    /\ [][C2_FinishedRunnerTakesNext]_vars

\* a runner has finished its item while another invocation is still in
\* flight and an item is still unclaimed
C2_Witness ==
    /\ poolPc = "running"
    /\ nextI < Len(items)
    /\ \E r, q \in 1..Len(runner) : runner[r].pc = "settled" /\ runner[q].pc = "await"
    /\ Cardinality(InFlight) = limit - 1

\* the runners whose worker invocation has not yet stored its result
Holding == {r \in 1..Len(runner) : runner[r].pc \in {"await", "settled"}}

\* C31: no index is handed to the worker twice and every index handed out
\* is an index of items; two runners that hold an invocation hold different
\* indices, so they write different slots, and a slot still to be written
\* is a hole; when mapLimit returns, the worker has been invoked exactly
\* once for every item.
C31_EachIndexClaimedOnce ==
    (poolPc # "idle") =>
        /\ \A j, k \in 1..Len(invoked) : invoked[j] = invoked[k] => j = k
        /\ \A k \in 1..Len(invoked) : invoked[k] \in 0..(Len(items) - 1)
        /\ \A r, q \in Holding : runner[r].idx = runner[q].idx => r = q
        /\ \A r \in Holding :
              /\ \E k \in 1..Len(invoked) : invoked[k] = runner[r].idx
              /\ results[runner[r].idx + 1] = Hole
        /\ (poolPc = "returned") =>
              /\ Len(invoked) = Len(items)
              /\ {invoked[k] : k \in 1..Len(invoked)} = 0..(Len(items) - 1)

\* three items under limit 2: the runner of index 1 finished first and took
\* index 2, the other runner then found the counter at 3 and the first one
\* at 4; every index was handed out once
C31_Witness ==
    /\ poolPc = "returned"
    /\ Len(items) = 3 /\ limit = 2
    /\ invoked = <<0, 1, 2>>
    /\ runner[1].idx = 3
    /\ runner[2].idx = 4
    /\ results[3] = WorkerValue(items[3], 2)

(***************************************************************************)
(* fetchPageBody(docId, pageId)                                            *)
(*                                                                         *)
(* One request is one call of withBackoff(() => v3Get(...)) for a format.  *)
(* The content of a response is undefined, a string or a parsed JSON value *)
(* (a tree of strings, numbers, arrays and objects).                       *)
(***************************************************************************)
fmtsWithXml == <<"text/md", "text/plain", "application/json", "text/html", "text/xml">>

\* const fmts = ["text/md", "text/plain", "application/json", "text/html"];
fmts == <<"text/md", "text/plain", "application/json", "text/html">>

NoContent      == [type |-> "undefined"]
StringOf(text) == [type |-> "string", text |-> text]
ObjectOf(tree) == [type |-> "object", value |-> tree]

Str(text)  == [kind |-> "str", value |-> text]
Num        == [kind |-> "num"]
Arr(elems) == [kind |-> "arr", items |-> elems]

\* the JSON texts the responses explored carry, with the value JSON.parse
\* gives for each; any other text makes JSON.parse throw
JsonTexts ==
    << [text  |-> <<"[","\"","b","\"",",","\""," ","a","\"","]">>,
        value |-> Arr(<<Str(<<"b">>), Str(<<" ","a">>)>>)],
       [text  |-> <<"[","1",",","[","\""," ","\"","]","]">>,
        value |-> Arr(<<Num, Arr(<<Str(<<" ">>)>>)>>)] >>

JsonParse(text) ==
    IF \E k \in 1..Len(JsonTexts) : JsonTexts[k].text = text
    THEN [threw |-> FALSE,
          value |-> JsonTexts[CHOOSE k \in 1..Len(JsonTexts) : JsonTexts[k].text = text].value]
    ELSE [threw |-> TRUE, value |-> Num]

\* while (stack.length) { const cur = stack.pop(); ... }
RECURSIVE CollectStrings(_, _)
CollectStrings(stack, out) ==
    IF stack = <<>> THEN out
    ELSE LET cur  == stack[Len(stack)]
             rest == SubSeq(stack, 1, Len(stack) - 1)
         IN IF cur.kind = "str" THEN CollectStrings(rest, Append(out, cur.value))
            ELSE IF cur.kind = "arr" THEN CollectStrings(rest \o cur.items, out)
            ELSE CollectStrings(rest, out)

\* out.join("\n")
RECURSIVE JoinNewline(_)
JoinNewline(out) ==
    IF out = <<>> THEN <<>>
    ELSE IF Len(out) = 1 THEN out[1]
    ELSE out[1] \o <<"\n">> \o JoinNewline(Tail(out))

\* if (!c) continue;
TruthyContent(c) == c.type = "object" \/ (c.type = "string" /\ c.text # <<>>)

\* the text t one turn of the loop computes; <<>> when the turn ends in
\* continue or in the catch
IterationBody(fmt, resp) ==
    IF ~resp.ok THEN <<>>
    ELSE IF ~TruthyContent(resp.content) THEN <<>>
    ELSE IF fmt = "application/json"
         THEN LET c      == resp.content
                  parsed == IF c.type = "string" THEN JsonParse(c.text)
                            ELSE [threw |-> FALSE, value |-> c.value]
              IN IF parsed.threw THEN <<>>
                 ELSE Trim(JoinNewline(CollectStrings(<<parsed.value>>, <<>>)))
         ELSE Trim(resp.content.text)

ReturnsBodyAlways(t) == TRUE

\* if (t) return t;
ReturnsBody(t) == t # <<>>

\* the strings a response can carry as content
TextContents ==
    { <<>>, <<" ","\n">>, <<" ","h","i"," ","\n">> } \cup { JsonTexts[k].text : k \in 1..Len(JsonTexts) }

\* the responses to a request for a format; application/json may also come
\* with a content that is an object already
Responses(fmt) ==
    { [ok |-> TRUE, content |-> NoContent] }
        \cup { [ok |-> TRUE, content |-> StringOf(t)] : t \in TextContents }
        \cup (IF fmt = "application/json"
              THEN { [ok |-> TRUE, content |-> ObjectOf(JsonTexts[k].value)] : k \in 1..Len(JsonTexts) }
              ELSE {})

RequestFailed == [ok |-> FALSE, content |-> NoContent]

AllResponses == UNION { Responses(fmts[k]) : k \in 1..Len(fmts) }

InitFetch ==
    /\ fIdx = 1
    /\ fPc = "request"
    /\ fReqs = <<>>
    /\ fResult = <<>>
    /\ BackoffIdle /\ PoolIdle /\ ParseIdle /\ HarvestIdle
    /\ TextIdle /\ ServeIdle
    /\ OthersIdle

\* the rest of the turn of the loop for the answer resp to the request in flight
TurnEffect(resp) ==
    /\ fPc = "request"
    /\ fReqs' = Append(fReqs, [fmt |-> fmts[fIdx], resp |-> resp])
    /\ LET t == IterationBody(fmts[fIdx], resp) IN
       IF ReturnsBody(t)
       THEN fResult' = t /\ fPc' = "returned" /\ UNCHANGED fIdx
       ELSE IF fIdx < Len(fmts)
            THEN fIdx' = fIdx + 1 /\ UNCHANGED <<fPc, fResult>>
            ELSE fResult' = <<>> /\ fPc' = "returned" /\ UNCHANGED fIdx

FormatTurn(resp) ==
    /\ TurnEffect(resp)
    /\ UNCHANGED <<bvars, mvars, pvars, hvars, tvars, svars, yvars>>

\* the request for the current format is answered
FormatResponds(resp) ==
    /\ fPc = "request"
    /\ resp \in Responses(fmts[fIdx])
    /\ FormatTurn(resp)

\* the request for the current format failed after the retries
FormatRequestFails == FormatTurn(RequestFailed)

NextFetch ==
    \/ \E resp \in AllResponses : FormatResponds(resp)
    \/ FormatRequestFails

SpecFetch == InitFetch /\ [][NextFetch]_vars

(***************************************************************************)
(* listAllDocs: the cursor loop over the document listing.  One request is *)
(* one call of withBackoff(() => v3Get(...)); a document is its id and     *)
(* whether it has a name that DOC_NAME_FILTER matches.                     *)
(***************************************************************************)
\* the largest number of listing requests of one call explored
MaxListing == 3

DocA == [id |-> 1, matches |-> TRUE]
DocB == [id |-> 2, matches |-> FALSE]

NoDocs == [defined |-> FALSE, list |-> <<>>]

DocsOf(list) == [defined |-> TRUE, list |-> list]

\* the values of data.docs
Batches ==
    { NoDocs, DocsOf(<<>>), DocsOf(<<DocA>>), DocsOf(<<DocB>>),
      DocsOf(<<DocA, DocB>>), DocsOf(<<DocB, DocA>>) }

\* the values of data.next_cursor: undefined, "", and two cursors
Cursors == { NoCursor, <<>>, <<"a">>, <<"b">> }

\* while (next_cursor)
IsCursor(c) == c # NoCursor /\ c # <<>>

Pending == [kind |-> "pending"]

CursorParamNever(c) == NoCursor

\* ...(next_cursor ? { next_cursor } : {})  -- the parameter of the request
CursorParam(c) == IF IsCursor(c) THEN c ELSE NoCursor

\* data?.docs || []
BatchOf(d) == IF d.defined THEN d.list ELSE <<>>

\* DOC_NAME_FILTER ? batch.filter(d => d?.name && DOC_NAME_FILTER.test(d.name)) : batch
FilterBatch(filter, batch) ==
    IF filter THEN SelectSeq(batch, LAMBDA d : d.matches) ELSE batch

InitListing ==
    /\ dPc = "request"
    /\ dCursor = NoCursor
    /\ dOut = <<>>
    /\ dReqs = << [cursor |-> CursorParam(NoCursor), resp |-> Pending] >>
    /\ dFilter \in BOOLEAN
    /\ dRet = [kind |-> "none"]
    /\ BackoffIdle /\ PoolIdle /\ ParseIdle /\ HarvestIdle
    /\ TextIdle /\ FetchIdle /\ ServeIdle
    /\ CollectIdle /\ ScanIdle /\ env = NoEnv /\ pageRequests = 0 /\ WriterIdle

\* the request in flight is answered with docs d and next_cursor c: the batch
\* is pushed and the loop either issues the next request or returns
ListingResponds(d, c) ==
    /\ dPc = "request"
    /\ IsCursor(c) => Len(dReqs) < MaxListing
    /\ LET out  == dOut \o FilterBatch(dFilter, BatchOf(d))
           done == [dReqs EXCEPT ![Len(dReqs)].resp = [kind |-> "ok", docs |-> d, next_cursor |-> c]]
       IN /\ dOut' = out
          /\ dCursor' = c
          /\ IF IsCursor(c)
             THEN /\ dReqs' = Append(done, [cursor |-> CursorParam(c), resp |-> Pending])
                  /\ UNCHANGED <<dPc, dRet>>
             ELSE /\ dReqs' = done
                  /\ dPc' = "returned"
                  /\ dRet' = [kind |-> "docs", docs |-> out]
    /\ UNCHANGED <<dFilter, pageRequests, wvars, cvars, lvars, env, bvars, mvars, pvars, hvars, xvars>>

\* the request in flight failed after the retries: the rejection of
\* withBackoff leaves listAllDocs through the await
ListingFails ==
    /\ dPc = "request"
    /\ dReqs' = [dReqs EXCEPT ![Len(dReqs)].resp = [kind |-> "failed"]]
    /\ dPc' = "raised"
    /\ dRet' = [kind |-> "error"]
    /\ UNCHANGED <<dCursor, dOut, dFilter, pageRequests, wvars, cvars, lvars, env,
                   bvars, mvars, pvars, hvars, xvars>>

NextListing ==
    \/ \E d \in Batches, c \in Cursors : ListingResponds(d, c)
    \/ ListingFails

SpecListing == InitListing /\ [][NextListing]_vars

\* the filtered documents of the first n responses, in response order
RECURSIVE DocsOfResponses(_)
DocsOfResponses(n) ==
    IF n = 0 THEN <<>>
    ELSE DocsOfResponses(n - 1) \o FilterBatch(dFilter, BatchOf(dReqs[n].resp.docs))

Answered == { k \in 1..Len(dReqs) : dReqs[k].resp.kind = "ok" }

\* C36: the listing requests are issued one after the other, each after the
\* first carrying the cursor of the response before it; the call returns at
\* the first response without a cursor, with the filtered documents of all
\* responses in response order; it returns only if a response carried no
\* cursor; when a request fails the call rejects and yields no document
C36_CursorLoop ==
    /\ \A k \in 1..Len(dReqs) : dReqs[k].resp = Pending => (k = Len(dReqs) /\ dPc = "request")
    /\ dReqs # <<>> => dReqs[1].cursor = NoCursor
    /\ \A k \in 2..Len(dReqs) :
          /\ dReqs[k - 1].resp.kind = "ok"
          /\ IsCursor(dReqs[k - 1].resp.next_cursor)
          /\ dReqs[k].cursor = dReqs[k - 1].resp.next_cursor
    /\ dPc = "request" => (dReqs[Len(dReqs)].resp = Pending /\ dRet.kind = "none")
    /\ dPc = "returned" <=>
          (dReqs # <<>> /\ dReqs[Len(dReqs)].resp.kind = "ok"
                        /\ ~IsCursor(dReqs[Len(dReqs)].resp.next_cursor))
    /\ dPc = "returned" =>
          /\ Answered = 1..Len(dReqs)
          /\ dRet = [kind |-> "docs", docs |-> DocsOfResponses(Len(dReqs))]
    /\ dPc = "raised" <=> (dReqs # <<>> /\ dReqs[Len(dReqs)].resp.kind = "failed")
    /\ dPc = "raised" => dRet = [kind |-> "error"]

C36_Witness ==
    /\ dPc = "returned"
    /\ Len(dReqs) = 3
    /\ dFilter
    /\ dReqs[2].cursor = <<"a">> /\ dReqs[3].cursor = <<"b">>
    /\ dRet.docs = <<DocA, DocA>>
    /\ dReqs[2].resp.docs = DocsOf(<<DocB>>)

C36_FailureWitness ==
    /\ dPc = "raised"
    /\ dOut # <<>>
    /\ Len(dReqs) = 2

(***************************************************************************)
(* fetchPageBody with the attempts of withBackoff: every request of one    *)
(* call, the retries of each format included                               *)
(***************************************************************************)
InitPage ==
    /\ fIdx = 1
    /\ fPc = "request"
    /\ fReqs = <<>>
    /\ fResult = <<>>
    /\ bTries = DefaultTries
    /\ bBase = DefaultBaseDelay
    /\ bI = 0
    /\ bDelay = DefaultBaseDelay
    /\ bPc = "call"
    /\ bCalls = <<>>
    /\ bSleeps = <<>>
    /\ bResult = "none"
    /\ pageRequests = 1
    /\ PoolIdle /\ ParseIdle /\ HarvestIdle
    /\ TextIdle /\ ServeIdle
    /\ CollectIdle /\ ScanIdle /\ env = NoEnv /\ ListingIdle /\ WriterIdle

\* the turn of the loop for resp goes on to the next format
TurnContinues(resp) ==
    /\ ~ReturnsBody(IterationBody(fmts[fIdx], resp))
    /\ fIdx < Len(fmts)

\* withBackoff has settled with resp: the turn of the format loop ends, and
\* the next turn, if any, calls withBackoff anew and issues its first request
BackoffSettles(resp) ==
    /\ TurnEffect(resp)
    /\ bResult' = [ok |-> resp.ok, status |-> IF resp.ok THEN 200 ELSE 0, attempt |-> bI + 1]
    /\ IF TurnContinues(resp)
       THEN /\ bI' = 0 /\ bDelay' = bBase /\ bPc' = "call"
            /\ pageRequests' = pageRequests + 1
       ELSE /\ bPc' = "returned"
            /\ UNCHANGED <<bI, bDelay, pageRequests>>
    /\ UNCHANGED <<bTries, bBase, bCalls, bSleeps>>

\* return await fn();  -- the request in flight is answered
PageAttemptResolves(resp) ==
    /\ bPc = "call"
    /\ resp \in Responses(fmts[fIdx])
    /\ BackoffSettles(resp)
    /\ UNCHANGED <<mvars, pvars, hvars, tvars, svars, cvars, lvars, env, dvars, wvars>>

\* catch (err) { ... }  -- the request in flight failed with status s
PageAttemptRejects(s) ==
    /\ bPc = "call"
    /\ IF MayRetry(s, bI, bTries)
       THEN /\ bPc' = "sleep"
            /\ UNCHANGED <<bTries, bBase, bI, bDelay, bCalls, bSleeps, bResult,
                           fvars, pageRequests>>
       ELSE BackoffSettles(RequestFailed)
    /\ UNCHANGED <<mvars, pvars, hvars, tvars, svars, cvars, lvars, env, dvars, wvars>>

\* the timer of the sleep fires: i++, and the next attempt issues a request
PageTimerFires ==
    /\ bPc = "sleep"
    /\ IF bI + 1 < bTries
       THEN /\ bI' = bI + 1
            /\ bDelay' = NextDelay(bDelay)
            /\ bPc' = "call"
            /\ pageRequests' = pageRequests + 1
            /\ UNCHANGED <<bTries, bBase, bCalls, bSleeps, bResult, fvars>>
       ELSE BackoffSettles(RequestFailed)   \* Error("unreachable"), caught by the turn
    /\ UNCHANGED <<mvars, pvars, hvars, tvars, svars, cvars, lvars, env, dvars, wvars>>

NextPage ==
    \/ \E resp \in AllResponses : PageAttemptResolves(resp)
    \/ \E s \in ErrStatuses : PageAttemptRejects(s)
    \/ PageTimerFires

SpecPage == InitPage /\ [][NextPage]_vars

\* C35: fetchPageBody never raises: every failed request and every content
\* that cannot be decoded leads to the next format or to the empty string;
\* one call issues at most 4 formats x 5 attempts = 20 requests, at most 5
\* for each format; a page whose requests all failed resolves with the
\* empty string, exactly as a page whose contents are all empty
C35_NeverRaisesAtMostTwenty ==
    /\ fPc \in {"request", "returned"}
    /\ bPc \in {"call", "sleep", "returned"}
    /\ pageRequests <= 20
    /\ pageRequests <= fIdx * DefaultTries
    /\ bI < DefaultTries
    /\ (fPc = "request") <=> (bPc \in {"call", "sleep"})
    /\ fPc = "returned" =>
          /\ bPc = "returned"
          /\ fResult = <<>> <=>
                /\ Len(fReqs) = Len(fmts)
                /\ \A k \in 1..Len(fReqs) : IterationBody(fReqs[k].fmt, fReqs[k].resp) = <<>>
          /\ (\A k \in 1..Len(fReqs) : ~fReqs[k].resp.ok) => fResult = <<>>

C35_Witness ==
    /\ fPc = "returned"
    /\ fResult = <<>>
    /\ pageRequests = 20
    /\ \A k \in 1..Len(fReqs) : ~fReqs[k].resp.ok

\* the number of requests issued so far
FormatsRequested == IF fPc = "request" THEN fIdx ELSE Len(fReqs)

HasInk(text) == \E k \in 1..Len(text) : ~IsSpace(text[k])

\* the strings inside a JSON value
RECURSIVE StringsIn(_)
StringsIn(tree) ==
    IF tree.kind = "str" THEN {tree.value}
    ELSE IF tree.kind = "arr" THEN UNION { StringsIn(tree.items[k]) : k \in 1..Len(tree.items) }
    ELSE {}

\* the request for a format gave a body that is not empty after trimming
GaveBody(req) ==
    /\ req.resp.ok
    /\ req.resp.content.type # "undefined"
    /\ IF req.fmt # "application/json" THEN HasInk(req.resp.content.text)
       ELSE IF req.resp.content.type = "object"
            THEN \E t \in StringsIn(req.resp.content.value) : HasInk(t)
            ELSE \E k \in 1..Len(JsonTexts) :
                    /\ JsonTexts[k].text = req.resp.content.text
                    /\ \E t \in StringsIn(JsonTexts[k].value) : HasInk(t)

\* C20: the formats are requested in the order text/md, text/plain,
\* application/json, text/html; the first body that is not empty after
\* trimming is returned and no later format is requested; a failed request
\* or an empty body leads to the next format; "" is returned only when all
\* four formats gave nothing.
C20_FormatFallbackOrder ==
    (fPc # "idle") =>
        /\ FormatsRequested <= 4
        /\ \A k \in 1..Len(fReqs) : fReqs[k].fmt = fmts[k]
        /\ \A k \in 1..Len(fReqs) :
              GaveBody(fReqs[k]) =>
                  /\ k = Len(fReqs)
                  /\ FormatsRequested = k
                  /\ fPc = "returned"
                  /\ fResult # <<>>
                  /\ fResult = Trim(fResult)
                  /\ fReqs[k].fmt # "application/json" => fResult = Trim(fReqs[k].resp.content.text)
        /\ (fReqs # <<>> /\ ~GaveBody(fReqs[Len(fReqs)])) =>
              IF Len(fReqs) < 4
              THEN fPc = "request" /\ FormatsRequested = Len(fReqs) + 1
              ELSE fPc = "returned" /\ fResult = <<>>
        /\ (fPc = "returned" /\ fResult = <<>>) =>
              (Len(fReqs) = 4 /\ \A k \in 1..4 : ~GaveBody(fReqs[k]))

\* text/md failed, text/plain came back blank, application/json gave the body
C20_Witness ==
    /\ fPc = "returned"
    /\ Len(fReqs) = 3
    /\ ~fReqs[1].resp.ok
    /\ fReqs[2].resp.ok /\ fReqs[2].resp.content = StringOf(<<" ","\n">>)
    /\ fResult = <<"a","\n","b">>

(***************************************************************************)
(* harvestSystemMessagesFromDocs                                           *)
(*                                                                         *)
(* The remote store answers each request when it is made: listAllDocs with *)
(* the documents, listPagesMeta with the page metadata of a document (or   *)
(* nothing when the request failed), fetchPageBody with the body of a page *)
(* (or "" when every format failed).  A body is the sequence of its        *)
(* [system] blocks.  date_updated 0 is a page without the field.           *)
(***************************************************************************)
MaxDocs       == 2
MaxPagesTotal == 2

\* CONCURRENCY as configured for the runs explored
Concurrency == 2

Stamps == {0, 1, 2}

Cutoffs == {0, 2}

sDown == <<"d","o","w","n">>
sSlow == <<"s","l","o","w">>
sFine == <<"f","i","n","e">>

BodyError == << <<KvLine(kName, <<"X">>), KvLine(kStatus, wError),
                  KvLine(kSolved, wNo), KvLine(kMessage, sDown)>> >>

BodyWarning == << <<KvLine(kName, <<"W">>), KvLine(kStatus, wWarn),
                    KvLine(kDisplay, wYes), KvLine(kMessage, sSlow)>> >>

\* an ok block without a name, a hidden block and an error block
BodyOkHiddenError ==
    << <<KvLine(kStatus, wOk), KvLine(kMessage, sFine)>>,
       <<KvLine(kName, <<"H">>), KvLine(kStatus, wError), KvLine(kDisplay, wNo)>>,
       <<KvLine(kName, <<"X">>), KvLine(kStatus, wIncident), KvLine(kMessage, sDown)>> >>

EmptyBody == <<>>

\* what fetchPageBody can resolve with
Bodies == {BodyError, BodyWarning, BodyOkHiddenError, EmptyBody}

DocOf(d) == [id |-> d, name |-> d]

PageOf(d, k, stamp) == [id |-> <<d, k>>, name |-> <<d, k>>, date_updated |-> stamp]

RecentPagesNoFilter(pages, cut) == pages

\* const recentPages = cutoffMs ? pages.filter(p => (Number(p?.date_updated) || 0) >= cutoffMs) : pages;
RecentPages(pages, cut) ==
    IF cut # 0 THEN SelectSeq(pages, LAMBDA p : p.date_updated >= cut) ELSE pages

\* updated: entry.page.date_updated ? new Date(Number(...)).toISOString() : null
\* (<<>> is null, <<t>> the ISO string of t)
UpdatedOf(page) == IF page.date_updated # 0 THEN <<page.date_updated>> ELSE <<>>

\* (Date.parse(x.updated || "") || 0)
TimeKey(updated) == IF updated = <<>> THEN 0 ELSE updated[1]

MessageOf(f, doc, page) ==
    [ name |-> f.name, status |-> f.status, display |-> f.display,
      domains |-> f.domains, message |-> f.message,
      doc_id |-> doc.id, doc_name |-> doc.name,
      page_id |-> page.id, page_name |-> page.name,
      updated |-> UpdatedOf(page) ]

\* for (const f of found) messages.push({...})
RECURSIVE PushFound(_, _, _, _)
PushFound(msgs, found, doc, page) ==
    IF found = <<>> THEN msgs
    ELSE PushFound(Append(msgs, MessageOf(Head(found), doc, page)), Tail(found), doc, page)

RECURSIVE CollectBodiesStopAtEmpty(_, _, _)
CollectBodiesStopAtEmpty(msgs, slots, doc) ==
    IF slots = <<>> THEN msgs
    ELSE LET entry == SlotValue(Head(slots)) IN
         IF entry = Undefined \/ entry.body = EmptyBody
         THEN msgs
         ELSE CollectBodiesStopAtEmpty(
                  PushFound(msgs, extractAllSystemEntries(entry.body), doc, entry.page),
                  Tail(slots), doc)

\* for (const entry of bodies) { if (!entry?.body) continue; ... }
RECURSIVE CollectBodies(_, _, _)
CollectBodies(msgs, slots, doc) ==
    IF slots = <<>> THEN msgs
    ELSE LET entry == SlotValue(Head(slots)) IN
         IF entry = Undefined \/ entry.body = EmptyBody
         THEN CollectBodies(msgs, Tail(slots), doc)
         ELSE CollectBodies(
                  PushFound(msgs, extractAllSystemEntries(entry.body), doc, entry.page),
                  Tail(slots), doc)

\* const sev = { error: 0, warning: 1, ok: 2 };  sev[x.status] ?? 9
SevRank(status) ==
    IF status = "error" THEN 0
    ELSE IF status = "warning" THEN 1
    ELSE IF status = "ok" THEN 2
    ELSE 9

CompareOldestFirst(a, b) ==
    IF SevRank(a.status) # SevRank(b.status)
    THEN SevRank(a.status) - SevRank(b.status)
    ELSE TimeKey(a.updated) - TimeKey(b.updated)

\* the comparator given to messages.sort
Compare(a, b) ==
    IF SevRank(a.status) # SevRank(b.status)
    THEN SevRank(a.status) - SevRank(b.status)
    ELSE TimeKey(b.updated) - TimeKey(a.updated)

\* x put after every element of the sorted sequence that does not compare after it
RECURSIVE InsertSorted(_, _)
InsertSorted(sorted, x) ==
    IF sorted = <<>> THEN <<x>>
    ELSE IF Compare(Head(sorted), x) <= 0
         THEN <<Head(sorted)>> \o InsertSorted(Tail(sorted), x)
         ELSE <<x>> \o sorted

\* Array.prototype.sort with the comparator (a stable sort)
RECURSIVE SortFrom(_, _)
SortFrom(sorted, rest) ==
    IF rest = <<>> THEN sorted
    ELSE SortFrom(InsertSorted(sorted, Head(rest)), Tail(rest))

SortMessages(msgs) == SortFrom(<<>>, msgs)

HasStatus(msgs, st) == \E k \in 1..Len(msgs) : msgs[k].status = st

OverallSameNames(msgs) ==
    IF HasStatus(msgs, "error") THEN "error"
    ELSE IF HasStatus(msgs, "warning") THEN "warning"
    ELSE "ok"

\* messages.some(m => m.status === "error") ? "error" : messages.some(...) ? "warn" : "ok"
Overall(msgs) ==
    IF HasStatus(msgs, "error") THEN "error"
    ELSE IF HasStatus(msgs, "warning") THEN "warn"
    ELSE "ok"

\* the end of the run: sort, overall, return
Finish(msgs) ==
    /\ messages' = SortMessages(msgs)
    /\ snapshot' = [overall |-> Overall(SortMessages(msgs)), messages |-> SortMessages(msgs)]
    /\ hPc' = "done"

InitHarvest ==
    /\ hPc = "listDocs"
    /\ docs = <<>>
    /\ docIdx = 0
    /\ messages = <<>>
    /\ snapshot = NoSnapshot
    /\ cutoff \in Cutoffs
    /\ listed = 0
    /\ listings = <<>>
    /\ fetches = {}
    /\ outFile = NoFile
    /\ cliPc = "running"
    /\ response = NoResponse
    /\ BackoffIdle /\ PoolIdle /\ ParseIdle
    /\ TextIdle /\ FetchIdle
    /\ OthersIdle

\* const docs = await listAllDocs();  resolves with n documents; with none the
\* loop is skipped and the run ends at once, otherwise the first listPagesMeta
\* request is made
ListDocsResolves(n) ==
    /\ hPc = "listDocs"
    /\ docs' = [d \in 1..n |-> DocOf(d)]
    /\ IF n = 0
       THEN Finish(messages) /\ UNCHANGED docIdx
       ELSE hPc' = "listPages" /\ docIdx' = 1 /\ UNCHANGED <<messages, snapshot>>
    /\ UNCHANGED <<cutoff, listed, bvars, mvars, pvars, listings, fetches, xvars, yvars>>

\* listAllDocs rejects (its request failed after the retries): the run rejects
ListDocsRejects ==
    /\ hPc = "listDocs"
    /\ hPc' = "failed"
    /\ UNCHANGED <<docs, docIdx, messages, snapshot, cutoff, listed, bvars, mvars, pvars, listings, fetches, xvars, yvars>>

\* const pages = await listPagesMeta(doc.id);  resolves with the pages whose
\* date_updated are stamps ([] when the request failed); the recent pages are
\* handed to mapLimit
ListPagesResolves(stamps) ==
    /\ hPc = "listPages"
    /\ listed + Len(stamps) <= MaxPagesTotal
    /\ LET pages == [k \in 1..Len(stamps) |-> PageOf(docIdx, k, stamps[k])] IN
       /\ PoolStart(RecentPages(pages, cutoff), Concurrency)
       /\ listings' = Append(listings, [ok |-> TRUE, pages |-> pages])
    /\ listed' = listed + Len(stamps)
    /\ hPc' = "bodies"
    /\ UNCHANGED <<docs, docIdx, messages, snapshot, cutoff, fetches, bvars, pvars, xvars, yvars>>

\* the request of listPagesMeta failed after the retries: the catch returns []
\* and the (empty) list is handed to mapLimit
ListPagesFails ==
    /\ hPc = "listPages"
    /\ PoolStart(RecentPages(<<>>, cutoff), Concurrency)
    /\ listings' = Append(listings, [ok |-> FALSE, pages |-> <<>>])
    /\ hPc' = "bodies"
    /\ UNCHANGED <<docs, docIdx, messages, snapshot, cutoff, listed, fetches, bvars, pvars, xvars, yvars>>

\* the worker of runner r resolves: fetchPageBody gave the body of the page
FetchResolves(r, body) ==
    /\ hPc = "bodies"
    /\ r \in 1..Len(runner)
    /\ PoolSettle(r, [threw |-> FALSE,
                      value |-> [page |-> items[runner[r].idx + 1], body |-> body]])
    /\ fetches' = fetches \cup {[page |-> items[runner[r].idx + 1], ok |-> TRUE, body |-> body]}
    /\ UNCHANGED <<hPc, docs, docIdx, messages, snapshot, cutoff, listed, listings>>
    /\ UNCHANGED <<bvars, pvars, xvars, yvars>>

\* the worker of runner r resolves: no format request of fetchPageBody gave a
\* body (each failed or came back empty), so that it returned ""
FetchFails(r) ==
    /\ hPc = "bodies"
    /\ r \in 1..Len(runner)
    /\ PoolSettle(r, [threw |-> FALSE,
                      value |-> [page |-> items[runner[r].idx + 1], body |-> EmptyBody]])
    /\ fetches' = fetches \cup {[page |-> items[runner[r].idx + 1], ok |-> FALSE, body |-> EmptyBody]}
    /\ UNCHANGED <<hPc, docs, docIdx, messages, snapshot, cutoff, listed, listings>>
    /\ UNCHANGED <<bvars, pvars, xvars, yvars>>

HarvestRunnerResumes(r) ==
    /\ hPc = "bodies"
    /\ RunnerResumes(r)

\* mapLimit returns: the bodies are scanned in page order; then the next
\* document's pages are requested, or the run ends
BodiesReturn ==
    /\ hPc = "bodies"
    /\ poolPc = "running"
    /\ AllRunnersDone
    /\ poolPc' = "returned"
    /\ LET msgs == CollectBodies(messages, results, docs[docIdx]) IN
       IF docIdx < Len(docs)
       THEN /\ messages' = msgs
            /\ docIdx' = docIdx + 1
            /\ hPc' = "listPages"
            /\ UNCHANGED snapshot
       ELSE Finish(msgs) /\ UNCHANGED docIdx
    /\ UNCHANGED <<docs, cutoff, listed, listings, fetches>>
    /\ UNCHANGED <<items, limit, nextI, results, runner, invoked, threw>>
    /\ UNCHANGED <<bvars, pvars, xvars, yvars>>

\* the CLI helper: harvestSystemMessagesFromDocs().then(data => writeFileSync(...))
WriteFileMerging(old, data) ==
    IF old.kind = "json" /\ old.value # NoSnapshot
    THEN TextOfJson([data EXCEPT !.messages = @ \o old.value.messages])
    ELSE TextOfJson(data)

\* fs.writeFileSync(outFile, JSON.stringify(data, null, 2), "utf8")
WriteFile(old, data) == TextOfJson(data)

CliWrites ==
    /\ cliPc = "running"
    /\ hPc = "done"
    /\ outFile' = WriteFile(outFile, snapshot)
    /\ cliPc' = "wrote"
    /\ UNCHANGED <<response, bvars, mvars, pvars, hvars, tvars, fvars, yvars>>

\* the CLI helper: .catch(err => { console.error(...); process.exit(1); })
CliExits ==
    /\ cliPc = "running"
    /\ hPc = "failed"
    /\ cliPc' = "exit1"
    /\ UNCHANGED <<outFile, response, bvars, mvars, pvars, hvars, tvars, fvars, yvars>>

StampSeqs == UNION { [1..n -> Stamps] : n \in 0..MaxPagesTotal }

Next ==
    \/ \E n \in 0..MaxDocs : ListDocsResolves(n)
    \/ ListDocsRejects
    \/ \E stamps \in StampSeqs : ListPagesResolves(stamps)
    \/ ListPagesFails
    \/ \E r \in 1..Concurrency, body \in Bodies \ {EmptyBody} : FetchResolves(r, body)
    \/ \E r \in 1..Concurrency : FetchFails(r)
    \/ \E r \in 1..Concurrency : HarvestRunnerResumes(r)
    \/ BodiesReturn
    \/ CliWrites
    \/ CliExits

Spec == InitHarvest /\ [][Next]_vars

(***************************************************************************)
(* Claims about the snapshot of a run                                      *)
(***************************************************************************)
RunDone == hPc = "done"

SameKey(a, b) == a.name = b.name /\ a.status = b.status /\ a.message = b.message

\* C6: the final message list holds no two entries with identical
\* (name, severity, message).
C6_NoDuplicateMessages ==
    RunDone =>
        \A i, j \in 1..Len(snapshot.messages) :
            i # j => ~SameKey(snapshot.messages[i], snapshot.messages[j])

\* the position the claims give a severity in the feed
FeedRank(status) == CASE status = "error" -> 1 [] status = "warning" -> 2 [] status = "ok" -> 3

HasTime(m) == m.updated # <<>>

\* C7: in the snapshot every error entry precedes every warning entry and
\* every warning entry every ok entry; among entries of equal severity the
\* page timestamps do not increase, and entries without a timestamp come
\* after all entries with one.
C7_SortedBySeverityThenRecency ==
    RunDone =>
        \A i, j \in 1..Len(snapshot.messages) :
            i < j =>
                LET a == snapshot.messages[i]
                    b == snapshot.messages[j]
                IN /\ FeedRank(a.status) <= FeedRank(b.status)
                   /\ a.status = b.status =>
                         /\ HasTime(b) => HasTime(a)
                         /\ (HasTime(a) /\ HasTime(b)) => a.updated[1] >= b.updated[1]

\* a run that met an ok entry and an error entry on a page without
\* timestamp and then an error entry on a page with one ended with the
\* timestamped error first and the ok entry last
C7_Witness ==
    /\ RunDone
    /\ Len(snapshot.messages) = 3
    /\ snapshot.messages[1].status = "error" /\ HasTime(snapshot.messages[1])
    /\ snapshot.messages[2].status = "error" /\ ~HasTime(snapshot.messages[2])
    /\ snapshot.messages[3].status = "ok"
    /\ snapshot.messages[1].page_id = <<1, 2>>
    /\ snapshot.messages[2].page_id = <<1, 1>>
    /\ snapshot.messages[3].page_id = <<1, 1>>

\* C8: overall is error iff some message is error, warn iff none is error
\* and some is warning, ok otherwise; it is never warning.
C8_OverallStatus ==
    RunDone =>
        LET msgs == snapshot.messages
            anyError   == \E k \in 1..Len(msgs) : msgs[k].status = "error"
            anyWarning == \E k \in 1..Len(msgs) : msgs[k].status = "warning"
        IN /\ snapshot.overall \in {"error", "warn", "ok"}
           /\ snapshot.overall = "error" <=> anyError
           /\ snapshot.overall = "warn" <=> (~anyError /\ anyWarning)
           /\ snapshot.overall = "ok" <=> (~anyError /\ ~anyWarning)

\* a run ended with two warning entries and no error entry
C8_Witness ==
    /\ RunDone
    /\ snapshot.overall = "warn"
    /\ Len(snapshot.messages) = 2
    /\ \A k \in 1..Len(snapshot.messages) : snapshot.messages[k].status = "warning"

(***************************************************************************)
(* GET /api/status (server/index.js) and the artifact data/system.json     *)
(*                                                                         *)
(* The content of a file and the body of a response are texts: the text    *)
(* JSON.stringify gives for a value v is TextOfJson(v), any other text is  *)
(* [kind |-> "text", value |-> its characters].  A file is NoFile when it  *)
(* does not exist, Unreadable when reading it throws for another reason,   *)
(* and its content otherwise.                                              *)
(***************************************************************************)
\* fs.readFileSync(dataPath, "utf8") returns
Readable(file) == file # NoFile /\ file # Unreadable

\* the instants new Date() can give
Clock == {1, 2}

\* the object of the catch branch
FallbackAt(now) == [overall |-> "ok", updatedAt |-> now, messages |-> <<>>]

StatusResponseError500(file, now) ==
    IF Readable(file)
    THEN [status |-> 200, body |-> file]
    ELSE [status |-> 500, body |-> TextOfJson([ok |-> FALSE])]

\* try { const raw = fs.readFileSync(...); res.type("json").send(raw); }
\* catch (err) { res.json({ overall: "ok", updatedAt: ..., messages: [] }); }
StatusResponse(file, now) ==
    IF Readable(file)
    THEN [status |-> 200, body |-> file]
    ELSE [status |-> 200, body |-> TextOfJson(FallbackAt(now))]

\* the snapshots a harvester run can have written
WrittenSnapshots ==
    { LET msgs == SortMessages(PushFound(<<>>, extractAllSystemEntries(b),
                                         DocOf(1), PageOf(1, 1, st)))
      IN [overall |-> Overall(msgs), messages |-> msgs] :
        b \in Bodies, st \in Stamps }

\* contents of the file that no harvester run wrote: an empty file and a
\* file cut off after its first character
OtherContents == { [kind |-> "text", value |-> <<>>], [kind |-> "text", value |-> <<"{">>] }

FileContents == {TextOfJson(snap) : snap \in WrittenSnapshots} \cup OtherContents

InitServe ==
    /\ outFile \in FileContents \cup {NoFile, Unreadable}
    /\ cliPc = "idle"
    /\ response = NoResponse
    /\ BackoffIdle /\ PoolIdle /\ ParseIdle /\ HarvestIdle
    /\ TextIdle /\ FetchIdle
    /\ OthersIdle

\* app.get("/api/status", ...) answers a request at instant now
GetStatus(now) ==
    /\ response' = StatusResponse(outFile, now)
    /\ UNCHANGED <<outFile, cliPc, bvars, mvars, pvars, hvars, tvars, fvars, yvars>>

\* a harvester process writes the snapshot of its run
ArtifactWritten(snap) ==
    /\ outFile' = TextOfJson(snap)
    /\ UNCHANGED <<cliPc, response, bvars, mvars, pvars, hvars, tvars, fvars, yvars>>

NextServe ==
    \/ \E now \in Clock : GetStatus(now)
    \/ \E snap \in WrittenSnapshots : ArtifactWritten(snap)

SpecServe == InitServe /\ [][NextServe]_vars

\* the safe empty-but-valid snapshot
IsFallback(body) ==
    /\ body.kind = "json"
    /\ DOMAIN body.value = {"overall", "updatedAt", "messages"}
    /\ body.value.overall = "ok"
    /\ body.value.messages = <<>>

\* what the claim lets a request answer, given the file at that instant
AnswerAllowed(resp, file) ==
    /\ resp.status = 200
    /\ IF Readable(file) THEN resp.body = file ELSE IsFallback(resp.body)

C18_NeverErrorStatus == response = NoResponse \/ response.status = 200

C18_AnswerFollowsFile == (response' # response) => AnswerAllowed(response', outFile)

\* C18: GET /api/status answers with the content of the artifact, unchanged,
\* when it can be read, with the empty snapshot (overall ok, no messages)
\* when the artifact is missing or unreadable, and never with an error status.
C18_StatusEndpoint ==
    /\ [](C18_NeverErrorStatus)
    /\ [][C18_AnswerFollowsFile]_vars

\* a request was answered with the empty snapshot while the artifact could
\* not be read
C18_Witness ==
    /\ outFile = Unreadable
    /\ response.status = 200
    /\ IsFallback(response.body)

(***************************************************************************)
(* GET /api/status while a harvester process overwrites the artifact       *)
(*                                                                         *)
(* The server and the harvester are two processes.  fs.writeFileSync opens *)
(* the file with truncation and then writes the text; the server's         *)
(* readFileSync can run between the two and between the writes.            *)
(***************************************************************************)
\* the snapshot of a run that found one page with body b
SnapshotOfBody(b) ==
    LET msgs == SortMessages(PushFound(<<>>, extractAllSystemEntries(b), DocOf(1), PageOf(1, 1, 1)))
    IN [overall |-> Overall(msgs), messages |-> msgs]

\* the snapshots the harvester runs explored write
OverwriteSnapshots ==
    { [overall |-> "ok", messages |-> <<>>],
      SnapshotOfBody(BodyError), SnapshotOfBody(BodyWarning) }

EmptyText == [kind |-> "text", value |-> <<>>]

\* the file after the first bytes of JSON.stringify(data, null, 2)
FirstBytes == [kind |-> "text", value |-> <<"{">>]

Writing(snap, stage) == [kind |-> "write", snap |-> snap, stage |-> stage]

InitOverwrite ==
    /\ \/ outFile = NoFile /\ wDone = {}
       \/ \E snap \in OverwriteSnapshots : outFile = TextOfJson(snap) /\ wDone = {snap}
    /\ wData = NoWrite
    /\ cliPc = "idle"
    /\ response = NoResponse
    /\ BackoffIdle /\ PoolIdle /\ ParseIdle /\ HarvestIdle
    /\ TextIdle /\ FetchIdle
    /\ CollectIdle /\ ScanIdle /\ env = NoEnv /\ pageRequests = 0 /\ ListingIdle

\* fs.writeFileSync(outFile, ...): the file is opened and truncated
WriteOpens(snap) ==
    /\ wData = NoWrite
    /\ wData' = Writing(snap, "truncated")
    /\ outFile' = EmptyText
    /\ UNCHANGED <<wDone, cliPc, response, bvars, mvars, pvars, hvars, tvars, fvars,
                   cvars, lvars, env, pageRequests, dvars>>

\* a first part of the text has reached the file
WriteAdvances ==
    /\ wData # NoWrite /\ wData.stage = "truncated"
    /\ wData' = Writing(wData.snap, "partial")
    /\ outFile' = FirstBytes
    /\ UNCHANGED <<wDone, cliPc, response, bvars, mvars, pvars, hvars, tvars, fvars,
                   cvars, lvars, env, pageRequests, dvars>>

\* the whole text has reached the file and writeFileSync returns
WriteCompletes ==
    /\ wData # NoWrite
    /\ outFile' = WriteFile(outFile, wData.snap)
    /\ wDone' = wDone \cup {wData.snap}
    /\ wData' = NoWrite
    /\ UNCHANGED <<cliPc, response, bvars, mvars, pvars, hvars, tvars, fvars,
                   cvars, lvars, env, pageRequests, dvars>>

NextOverwrite ==
    \/ \E now \in Clock : GetStatus(now)
    \/ \E snap \in OverwriteSnapshots : WriteOpens(snap)
    \/ WriteAdvances
    \/ WriteCompletes

SpecOverwrite == InitOverwrite /\ [][NextOverwrite]_vars

\* C38: every response of GET /api/status is the complete text of a
\* snapshot some harvester run wrote, or the empty fallback; a request
\* served while the artifact is being overwritten never gets a truncated or
\* partly written text
C38_CompleteOrFallback ==
    response # NoResponse =>
        /\ response.status = 200
        /\ \/ IsFallback(response.body)
           \/ \E snap \in wDone \cup (IF wData = NoWrite THEN {} ELSE {wData.snap}) :
                 response.body = TextOfJson(snap)

\* a request was served between the truncation and the end of the write,
\* and its body is the empty text
C38_TruncatedServed ==
    /\ wData # NoWrite
    /\ response # NoResponse
    /\ response.body = EmptyText

(***************************************************************************)
(* Claims about failures, the cutoff and the order of completion           *)
(***************************************************************************)
RunEnded == hPc \in {"done", "failed"}

EmptySnapshot == [overall |-> "ok", messages |-> <<>>]

\* C15: a run that has ended has produced a snapshot, and the CLI helper
\* does not exit with an error; when the document listing itself failed the
\* snapshot is the empty one (no messages, overall ok).
C15_RunEndsWithSnapshot ==
    /\ RunEnded => snapshot # NoSnapshot
    /\ hPc = "failed" => snapshot = EmptySnapshot
    /\ cliPc # "exit1"

\* the entries of each body the remote store serves
EntriesOfBody == [b \in Bodies |-> extractAllSystemEntries(b)]

\* the pages of the listings so far
ListedPages == UNION { {listings[d].pages[k] : k \in 1..Len(listings[d].pages)} : d \in 1..Len(listings) }

FetchedPages == {f.page : f \in fetches}

\* the messages of the snapshot that come from a page, in feed order
FromPage(msgs, page) == SelectSeq(msgs, LAMBDA m : m.page_id = page.id)

EntryOf(m) ==
    [name |-> m.name, status |-> m.status, display |-> m.display,
     domains |-> m.domains, message |-> m.message]

\* the messages in msgs are exactly the given entries, whatever their order
SameEntries(msgs, entries) ==
    /\ Len(msgs) = Len(entries)
    /\ \A e \in {entries[k] : k \in 1..Len(entries)} :
          Cardinality({k \in 1..Len(msgs) : EntryOf(msgs[k]) = e})
              = Cardinality({k \in 1..Len(entries) : entries[k] = e})

\* C16: a failed page listing gives the document an empty page list and
\* the run goes on with every remaining document; a page whose body fetch
\* failed contributes nothing, and every other page contributes the entries
\* of its body.
C16_FailureIsolation ==
    /\ \A d \in 1..Len(listings) : ~listings[d].ok => listings[d].pages = <<>>
    /\ hPc = "failed" => listings = <<>>
    /\ RunDone =>
          /\ Len(listings) = Len(docs)
          /\ \A f \in fetches :
                SameEntries(FromPage(snapshot.messages, f.page),
                            IF f.ok THEN EntriesOfBody[f.body] ELSE <<>>)
          /\ \A k \in 1..Len(snapshot.messages) :
                \E f \in fetches : f.ok /\ f.page.id = snapshot.messages[k].page_id

\* the page listing of the first document failed; of the two pages of the
\* second document one could not be fetched and the other gave its entry
C16_Witness ==
    /\ RunDone
    /\ Len(docs) = 2
    /\ ~listings[1].ok
    /\ listings[2].ok /\ Len(listings[2].pages) = 2
    /\ \E f \in fetches : ~f.ok /\ f.page.id = <<2, 1>>
    /\ \E f \in fetches : f.ok /\ f.page.id = <<2, 2>> /\ f.body = BodyError
    /\ Len(snapshot.messages) = 1
    /\ snapshot.messages[1].page_id = <<2, 2>>

\* the pages whose body has been requested so far
RequestedPages ==
    FetchedPages \cup
        {items[runner[r].idx + 1] : r \in {q \in 1..Len(runner) : runner[q].pc # "done"}}

\* C17: with a cutoff no body is requested for a page whose date_updated
\* precedes it; without one the body of every listed page of every document
\* is requested.
C17_CutoffSkipsOldPages ==
    (hPc \notin {"idle", "failed"}) =>
        /\ cutoff # 0 => \A p \in RequestedPages : p.date_updated >= cutoff
        /\ (cutoff = 0 /\ RunDone) =>
              /\ Len(listings) = Len(docs)
              /\ ListedPages = FetchedPages

\* a run with a cutoff listed an older and a recent page and fetched the
\* recent one only
C17_Witness ==
    /\ RunDone
    /\ cutoff = 2
    /\ \E p \in ListedPages : p.date_updated = 1 /\ p \notin FetchedPages
    /\ \E p \in ListedPages : p.date_updated = 2 /\ p \in FetchedPages

\* the body served for a page
BodyServed(page) == (CHOOSE f \in fetches : f.page = page).body

\* the entries of the pages of one listing, in page order, as messages
RECURSIVE DocFeed(_, _)
DocFeed(doc, pages) ==
    IF pages = <<>> THEN <<>>
    ELSE LET page == Head(pages)
             es   == IF page \in FetchedPages
                     THEN EntriesOfBody[BodyServed(page)] ELSE <<>>
         IN [k \in 1..Len(es) |-> MessageOf(es[k], doc, page)] \o DocFeed(doc, Tail(pages))

\* the entries of the remote content in document, page and block order
RECURSIVE RemoteFeed(_)
RemoteFeed(d) ==
    IF d > Len(listings) THEN <<>>
    ELSE DocFeed(docs[d], listings[d].pages) \o RemoteFeed(d + 1)

\* entry i of all precedes entry j in the feed: by severity, then by
\* timestamp (newest first), then by position in the remote content
FeedBefore(all, i, j) ==
    LET a == all[i]
        b == all[j]
    IN \/ SevRank(a.status) < SevRank(b.status)
       \/ /\ SevRank(a.status) = SevRank(b.status)
          /\ \/ TimeKey(a.updated) > TimeKey(b.updated)
             \/ (TimeKey(a.updated) = TimeKey(b.updated) /\ i < j)

FeedPosition(all, i) == 1 + Cardinality({j \in 1..Len(all) : FeedBefore(all, j, i)})

\* C19: the message list is a function of the remote content alone: each
\* result slot holds the body of the page of that position, whatever the
\* order in which the fetches completed, and the feed of a finished run is
\* the remote content's entries in the one order fixed by severity,
\* timestamp and position in the content.
C19_FeedIndependentOfCompletionOrder ==
    /\ hPc = "bodies" =>
          \A k \in 1..Len(results) :
              results[k] # Hole =>
                  /\ results[k].page = items[k]
                  /\ results[k].body = BodyServed(items[k])
    /\ RunDone =>
          LET all == RemoteFeed(1) IN
          /\ Len(snapshot.messages) = Len(all)
          /\ \A i \in 1..Len(all) : snapshot.messages[FeedPosition(all, i)] = all[i]

\* without cutoff or failure the body of the second page arrived before
\* that of the first, and both pages carry an entry of the same rank
C19_Witness ==
    /\ hPc = "bodies"
    /\ cutoff = 0
    /\ Len(items) = 2
    /\ items[1].date_updated = items[2].date_updated
    /\ results[1] = Hole
    /\ results[2] # Hole
    /\ results[2].body = BodyError
    /\ runner[1].pc = "settled" /\ runner[1].out.value.body = BodyOkHiddenError
    /\ \A f \in fetches : f.ok

(***************************************************************************)
(* collectSystemFromDoc: the collector that descends into child documents  *)
(*                                                                         *)
(* A document is named by its path from the root document.  Each await is  *)
(* a step: the page listing, the bodies (mapLimit over fetchPageBody), the *)
(* child listing, and each recursive call.  The date_updated of a page is  *)
(* the raw value of the metadata: missing, a text that is no number, or a  *)
(* number.  In the runs without a cutoff every page carries a number.      *)
(***************************************************************************)
MaxDepth == 1

\* the values of MAX_DEPTH explored
DepthBounds == (0 - 1)..MaxDepth

\* how many child documents a child listing can return
ChildCounts == {0, 1, 2}

\* what fetchPageBody can resolve with for a page of the collector
PageBodies == {BodyError, BodyWarning, EmptyBody}

\* the raw values of p.date_updated
NoStamp      == [kind |-> "undefined", n |-> 0]
TextStamp    == [kind |-> "text", n |-> 0]
NumStamp(n)  == [kind |-> "number", n |-> n]

NaN == [nan |-> TRUE, n |-> 0]

\* Number(p?.date_updated)
NumberOf(raw) == IF raw.kind = "number" THEN [nan |-> FALSE, n |-> raw.n] ELSE NaN

OrRecent(v) == IF v.nan \/ v.n = 0 THEN 2 ELSE v.n

\* v || 0
OrZero(v) == IF v.nan \/ v.n = 0 THEN 0 ELSE v.n

\* const recentPages = cutoffMs ? pages.filter((p) => (Number(p?.date_updated) || 0) >= cutoffMs) : pages;
CollectRecent(pages, cut) ==
    IF cut # 0
    THEN SelectSeq(pages, LAMBDA p : OrZero(NumberOf(p.date_updated)) >= cut)
    ELSE pages

\* updated: p.date_updated ? new Date(Number(p.date_updated)).toISOString() : null
CollectUpdated(raw) ==
    IF raw.kind = "undefined" \/ (raw.kind = "number" /\ raw.n = 0) THEN <<>> ELSE <<raw.n>>

\* the date_updated of the pages a page listing can return
PageListings(cut) ==
    IF cut = 0
    THEN { <<>>, <<NumStamp(1)>> }
    ELSE { <<>>, <<TextStamp>>, <<NumStamp(1)>>, <<NoStamp, NumStamp(2)>> }

ReturnsEarlyNever(recent) == FALSE

\* if (!recentPages.length) return [];
ReturnsEarly(recent) == recent = <<>>

RootDoc == <<"root">>

Frame(doc, depth) ==
    [doc |-> doc, depth |-> depth, pc |-> "enter", pages |-> <<>>,
     entries |-> <<>>, children |-> <<>>, k |-> 0, got |-> <<>>]

\* entries.push({...e, doc_id: docId, page_id: p.id, page_name: p.name, updated})
CollectEntry(e, docId, page) ==
    [ name |-> e.name, status |-> e.status, display |-> e.display,
      domains |-> e.domains, message |-> e.message,
      doc_id |-> docId, page_id |-> page.id, page_name |-> page.name,
      updated |-> CollectUpdated(page.date_updated) ]

\* the loop over recentPages: a page without a body is skipped
RECURSIVE EntriesFrom(_, _, _, _)
EntriesFrom(docId, pages, bodies, i) ==
    IF i > Len(pages) THEN <<>>
    ELSE (IF bodies[i] = EmptyBody THEN <<>>
          ELSE [k \in 1..Len(EntriesOfBody[bodies[i]]) |->
                    CollectEntry(EntriesOfBody[bodies[i]][k], docId, pages[i])])
         \o EntriesFrom(docId, pages, bodies, i + 1)

RecurseEnabledOffByOne(bound, depth) == bound >= depth

\* if (MAX_DEPTH > depth)
RecurseEnabled(bound, depth) == bound > depth

Top == cStack[Len(cStack)]

WithTop(f) == [cStack EXCEPT ![Len(cStack)] = f]

\* the innermost call resolves with v: its caller, if any, resumes with it
StackAfterReturn(v) ==
    IF Len(cStack) = 1 THEN <<>>
    ELSE [SubSeq(cStack, 1, Len(cStack) - 1) EXCEPT
            ![Len(cStack) - 1] = [@ EXCEPT !.pc = "resume", !.got = v]]

RetAfterReturn(v) ==
    IF Len(cStack) = 1 THEN [kind |-> "value", value |-> v] ELSE cRet

ReturnRecord(doc, v) == [kind |-> "return", doc |-> doc, value |-> v]

\* the loop over children reaches child number k of frame f
CallChild(f, k) ==
    Append(WithTop([f EXCEPT !.pc = "child", !.k = k]), Frame(f.children[k], f.depth + 1))

InitCollect ==
    /\ cBound \in DepthBounds
    /\ cCutoff \in Cutoffs
    /\ cStack = <<Frame(RootDoc, 0)>>
    /\ cLog = <<>>
    /\ cDone = {}
    /\ cRet = [kind |-> "pending"]
    /\ ScanIdle /\ env = NoEnv /\ LateIdle
    /\ BackoffIdle /\ PoolIdle /\ ParseIdle /\ HarvestIdle
    /\ TextIdle /\ FetchIdle /\ ServeIdle

\* if (depth > MAX_DEPTH) return []; const pages = await pageListingMeta(docId);
CollectEnter ==
    /\ cStack # <<>> /\ Top.pc = "enter"
    /\ IF Top.depth > cBound
       THEN /\ cStack' = StackAfterReturn(<<>>)
            /\ cRet' = RetAfterReturn(<<>>)
            /\ cDone' = cDone \cup {ReturnRecord(Top.doc, <<>>)}
            /\ cLog' = cLog
       ELSE /\ cStack' = WithTop([Top EXCEPT !.pc = "pages"])
            /\ cLog' = Append(cLog, [kind |-> "pages", doc |-> Top.doc, depth |-> Top.depth])
            /\ UNCHANGED <<cDone, cRet>>
    /\ UNCHANGED <<cBound, cCutoff, lvars, env, zvars, bvars, mvars, pvars, hvars, xvars>>

\* pageListingMeta resolved with pages (with [] when the request failed):
\* the cutoff filter, the early return, or mapLimit over the recent pages
PageListingEnds(ok, pages) ==
    /\ cStack # <<>> /\ Top.pc = "pages"
    /\ LET recent == CollectRecent(pages, cCutoff)
           metaDone == [kind |-> "pages", doc |-> Top.doc, ok |-> ok, pages |-> pages]
       IN IF ReturnsEarly(recent)
          THEN /\ cStack' = StackAfterReturn(<<>>)
               /\ cRet' = RetAfterReturn(<<>>)
               /\ cDone' = cDone \cup { metaDone, ReturnRecord(Top.doc, <<>>) }
               /\ cLog' = cLog
          ELSE /\ cStack' = WithTop([Top EXCEPT !.pc = "bodies", !.pages = recent])
               /\ cLog' = Append(cLog, [kind |-> "bodies", doc |-> Top.doc, depth |-> Top.depth,
                                        pages |-> [k \in 1..Len(recent) |-> recent[k].id]])
               /\ cDone' = cDone \cup { metaDone }
               /\ cRet' = cRet
    /\ UNCHANGED <<cBound, cCutoff, lvars, env, zvars, bvars, mvars, pvars, hvars, xvars>>

PageListingResolves(raws) ==
    PageListingEnds(TRUE, [k \in 1..Len(raws) |-> PageOf(Top.doc, k, raws[k])])

PageListingFails == PageListingEnds(FALSE, <<>>)

\* mapLimit resolved with the bodies; the entries are extracted; then the
\* child listing is requested if recursion is enabled at this depth
BodiesResolve(bodies) ==
    /\ cStack # <<>> /\ Top.pc = "bodies"
    /\ LET entries == EntriesFrom(Top.doc, Top.pages, bodies, 1) IN
       IF RecurseEnabled(cBound, Top.depth)
       THEN /\ cStack' = WithTop([Top EXCEPT !.pc = "children", !.entries = entries])
            /\ cLog' = Append(cLog, [kind |-> "children", doc |-> Top.doc, depth |-> Top.depth])
            /\ cDone' = cDone \cup { [kind |-> "bodies", doc |-> Top.doc, entries |-> entries] }
            /\ cRet' = cRet
       ELSE /\ cStack' = StackAfterReturn(entries)
            /\ cRet' = RetAfterReturn(entries)
            /\ cDone' = cDone \cup { [kind |-> "bodies", doc |-> Top.doc, entries |-> entries],
                                     ReturnRecord(Top.doc, entries) }
            /\ cLog' = cLog
    /\ UNCHANGED <<cBound, cCutoff, lvars, env, zvars, bvars, mvars, pvars, hvars, xvars>>

\* listChildDocs resolved with children (with [] when the request failed)
ChildListingEnds(ok, children) ==
    /\ cStack # <<>> /\ Top.pc = "children"
    /\ IF children = <<>>
       THEN /\ cStack' = StackAfterReturn(Top.entries)
            /\ cRet' = RetAfterReturn(Top.entries)
            /\ cDone' = cDone \cup { [kind |-> "children", doc |-> Top.doc, ok |-> ok],
                                     ReturnRecord(Top.doc, Top.entries) }
       ELSE /\ cStack' = CallChild([Top EXCEPT !.children = children], 1)
            /\ cDone' = cDone \cup { [kind |-> "children", doc |-> Top.doc, ok |-> ok] }
            /\ cRet' = cRet
    /\ UNCHANGED <<cBound, cCutoff, cLog, lvars, env, zvars, bvars, mvars, pvars, hvars, xvars>>

ChildListingResolves(n) ==
    ChildListingEnds(TRUE, [k \in 1..n |-> Append(Top.doc, k)])

ChildListingFails == ChildListingEnds(FALSE, <<>>)

\* const more = await collectSystemFromDoc(child.id, depth + 1); entries.push(...more);
CollectResumes ==
    /\ cStack # <<>> /\ Top.pc = "resume"
    /\ LET entries == Top.entries \o Top.got IN
       IF Top.k < Len(Top.children)
       THEN /\ cStack' = CallChild([Top EXCEPT !.entries = entries, !.got = <<>>], Top.k + 1)
            /\ UNCHANGED <<cDone, cRet>>
       ELSE /\ cStack' = StackAfterReturn(entries)
            /\ cRet' = RetAfterReturn(entries)
            /\ cDone' = cDone \cup { ReturnRecord(Top.doc, entries) }
    /\ UNCHANGED <<cBound, cCutoff, cLog, lvars, env, zvars, bvars, mvars, pvars, hvars, xvars>>

\* the results arrays mapLimit can resolve with for the pages of the innermost call
BodyChoices == IF cStack = <<>> THEN {} ELSE [1..Len(Top.pages) -> PageBodies]

NextCollect ==
    \/ CollectEnter
    \/ \E raws \in PageListings(cCutoff) : PageListingResolves(raws)
    \/ PageListingFails
    \/ \E bodies \in BodyChoices : BodiesResolve(bodies)
    \/ \E n \in ChildCounts : ChildListingResolves(n)
    \/ ChildListingFails
    \/ CollectResumes

SpecCollect == InitCollect /\ [][NextCollect]_vars

\* the documents whose child listing failed
ChildListingFailed == { r.doc : r \in { q \in cDone : q.kind = "children" /\ ~q.ok } }

\* the entries extracted from the pages of doc
OwnEntries(doc) == { r.entries : r \in { q \in cDone : q.kind = "bodies" /\ q.doc = doc } }

IsChildOf(doc, parent) ==
    Len(doc) = Len(parent) + 1 /\ SubSeq(doc, 1, Len(parent)) = parent

\* C21: no request is ever made for a document at a depth greater than
\* MAX_DEPTH; with MAX_DEPTH 0 (or less) no child listing is requested; and
\* when the child listing of a document fails, no child of it is visited and
\* the call on that document resolves with exactly the entries extracted
\* from its own pages.
C21_DepthBoundAndChildFailure ==
    /\ \A k \in 1..Len(cLog) : cLog[k].depth <= cBound
    /\ \A k \in 1..Len(cLog) : cLog[k].kind = "children" => cLog[k].depth < cBound
    /\ cBound <= 0 => \A k \in 1..Len(cLog) : cLog[k].kind # "children"
    /\ \A doc \in ChildListingFailed :
          /\ \A k \in 1..Len(cLog) : ~IsChildOf(cLog[k].doc, doc)
          /\ \A r \in cDone :
                (r.kind = "return" /\ r.doc = doc) => OwnEntries(doc) = {r.value}

\* depth bound 1: the child listing of the root document failed and the
\* call resolved with the entries of the root's own page
C21_Witness ==
    /\ cBound = 1
    /\ RootDoc \in ChildListingFailed
    /\ cRet.kind = "value"
    /\ cRet.value # <<>>
    /\ cRet.value[1].doc_id = RootDoc

\* the page listings that have ended
PagesListed == { q \in cDone : q.kind = "pages" }

\* the ids of the pages whose bodies were requested
PagesFetched ==
    UNION { { cLog[j].pages[i] : i \in 1..Len(cLog[j].pages) } :
            j \in { k \in 1..Len(cLog) : cLog[k].kind = "bodies" } }

\* the ids of the pages that contributed an entry to a value returned
PagesWithEntry ==
    UNION { { q.value[i].page_id : i \in 1..Len(q.value) } :
            q \in { r \in cDone : r.kind = "return" } }

\* C37: with a cutoff, a page whose date_updated is missing or is not a
\* number is skipped: its body is never requested and no entry of any value
\* returned comes from it
C37_UndatedPageSkipped ==
    cCutoff # 0 =>
        \A r \in PagesListed : \A k \in 1..Len(r.pages) :
            r.pages[k].date_updated.kind # "number" =>
                /\ r.pages[k].id \notin PagesFetched
                /\ r.pages[k].id \notin PagesWithEntry
                /\ \A f \in 1..Len(cStack) : \A i \in 1..Len(cStack[f].pages) :
                      cStack[f].pages[i].id # r.pages[k].id

\* with a cutoff the root document listed a page without date_updated and a
\* recent page; the call resolved with entries, all of the recent page
C37_Witness ==
    /\ cCutoff = 2
    /\ \E r \in PagesListed :
          /\ r.doc = RootDoc
          /\ Len(r.pages) = 2
          /\ r.pages[1].date_updated = NoStamp
    /\ cRet.kind = "value"
    /\ cRet.value # <<>>
    /\ \A i \in 1..Len(cRet.value) : cRet.value[i].page_id = <<RootDoc, 2>>

IsBelow(doc, ancestor) ==
    Len(doc) > Len(ancestor) /\ SubSeq(doc, 1, Len(ancestor)) = ancestor

\* C39: the child documents of a document are listed only if one of its
\* pages passed the cutoff filter; when its page listing is empty, failed or
\* is filtered out entirely, the call on it resolves with the empty list, no
\* child listing is requested for it and no document below it is visited
C39_NoRecentPageNoDescent ==
    /\ \A r \in PagesListed :
          CollectRecent(r.pages, cCutoff) = <<>> =>
              /\ \A k \in 1..Len(cLog) : cLog[k].kind \in {"children", "bodies"} => cLog[k].doc # r.doc
              /\ \A k \in 1..Len(cLog) : ~IsBelow(cLog[k].doc, r.doc)
              /\ \A f \in 1..Len(cStack) : cStack[f].doc # r.doc /\ ~IsBelow(cStack[f].doc, r.doc)
              /\ ReturnRecord(r.doc, <<>>) \in cDone
              /\ \A q \in cDone : (q.kind = "return" /\ q.doc = r.doc) => q.value = <<>>
    /\ \A k \in 1..Len(cLog) :
          cLog[k].kind = "children" =>
              \E r \in PagesListed : r.doc = cLog[k].doc /\ CollectRecent(r.pages, cCutoff) # <<>>

\* depth bound 1 and a cutoff: the only page of the root document is older
\* than the cutoff, and the call resolved with [] after the page listing alone
C39_Witness ==
    /\ cBound = 1
    /\ cCutoff = 2
    /\ \E r \in PagesListed : r.doc = RootDoc /\ r.ok /\ r.pages # <<>>
                              /\ r.pages[1].date_updated = NumStamp(1)
    /\ cRet = [kind |-> "value", value |-> <<>>]
    /\ Len(cLog) = 1

\* the requests in flight: the one of listAllDocs or listPagesMeta, or the
\* one of each runner of mapLimit whose fetchPageBody has not returned
Outstanding ==
    (IF hPc \in {"listDocs", "listPages"} THEN 1 ELSE 0)
        + (IF hPc = "idle" THEN 0 ELSE Cardinality(InFlight))

sSet == <<"k">>

EnvOf(token, workspace, team) ==
    [kind |-> "env", CLICKUP_TOKEN |-> token,
     CLICKUP_WORKSPACE_ID |-> workspace, CLICKUP_TEAM_ID |-> team]

\* the environments explored; Absent is a variable that is not set
Envs == { EnvOf(sSet, sSet, Absent),
          EnvOf(sSet, Absent, sSet),
          EnvOf(Absent, sSet, sSet),
          EnvOf(<<>>, sSet, Absent),
          EnvOf(sSet, Absent, Absent),
          EnvOf(sSet, <<>>, <<>>),
          EnvOf(Absent, Absent, Absent) }

\* a || b
OrElse(a, b) == IF Truthy(a) THEN a ELSE b

\* const API_TOKEN = process.env.CLICKUP_TOKEN;
API_TOKEN(e) == e.CLICKUP_TOKEN

\* const WORKSPACE_ID = process.env.CLICKUP_WORKSPACE_ID || process.env.CLICKUP_TEAM_ID;
WORKSPACE_ID(e) == OrElse(e.CLICKUP_WORKSPACE_ID, e.CLICKUP_TEAM_ID)

StartupThrowsTokenOnly(e) == ~Truthy(API_TOKEN(e))

\* if (!API_TOKEN || !WORKSPACE_ID) throw new Error(...)
StartupThrows(e) == ~Truthy(API_TOKEN(e)) \/ ~Truthy(WORKSPACE_ID(e))

\* the artifact a previous run left: one error message from page 1 of document 1
PriorSnapshot ==
    [overall |-> "error",
     messages |-> << MessageOf(EntriesOfBody[BodyError][1], DocOf(1), PageOf(1, 1, 1)) >>]

\* how many documents listAllDocs returns in the runs explored
RunDocCounts == {0, 1}

InitRun ==
    /\ env \in Envs
    /\ hPc = "startup"
    /\ docs = <<>>
    /\ docIdx = 0
    /\ messages = <<>>
    /\ snapshot = NoSnapshot
    /\ cutoff \in Cutoffs
    /\ listed = 0
    /\ listings = <<>>
    /\ fetches = {}
    /\ outFile = TextOfJson(PriorSnapshot)
    /\ cliPc = "running"
    /\ response = NoResponse
    /\ BackoffIdle /\ PoolIdle /\ ParseIdle
    /\ TextIdle /\ FetchIdle
    /\ CollectIdle /\ ScanIdle /\ LateIdle

\* the module body runs: the startup check throws, or the CLI helper calls
\* harvestSystemMessagesFromDocs, which makes the first listAllDocs request
ModuleLoads ==
    /\ hPc = "startup"
    /\ IF StartupThrows(env)
       THEN hPc' = "aborted" /\ cliPc' = "exit1"
       ELSE hPc' = "listDocs" /\ cliPc' = cliPc
    /\ UNCHANGED <<docs, docIdx, messages, snapshot, cutoff, listed, listings, fetches,
                   outFile, response, bvars, mvars, pvars, tvars, fvars, yvars>>

NextRun ==
    \/ ModuleLoads
    \/ \E n \in RunDocCounts : ListDocsResolves(n)
    \/ ListDocsRejects
    \/ \E stamps \in StampSeqs : ListPagesResolves(stamps)
    \/ ListPagesFails
    \/ \E r \in 1..Concurrency, body \in Bodies \ {EmptyBody} : FetchResolves(r, body)
    \/ \E r \in 1..Concurrency : FetchFails(r)
    \/ \E r \in 1..Concurrency : HarvestRunnerResumes(r)
    \/ BodiesReturn
    \/ CliWrites
    \/ CliExits

SpecRun == InitRun /\ [][NextRun]_vars

CredentialsMissing ==
    \/ env.CLICKUP_TOKEN \in {Absent, <<>>}
    \/ /\ env.CLICKUP_WORKSPACE_ID \in {Absent, <<>>}
       /\ env.CLICKUP_TEAM_ID \in {Absent, <<>>}

\* a request has been issued: the run is past the startup check
RequestIssued == hPc \notin {"startup", "aborted"} \/ listings # <<>> \/ fetches # {}

\* C22: when the token or the workspace identifier (CLICKUP_WORKSPACE_ID, or
\* CLICKUP_TEAM_ID in its place) is missing, the run aborts at startup: no
\* request is ever issued and the artifact is never written.
C22_AbortNoRequest ==
    CredentialsMissing =>
        /\ ~RequestIssued
        /\ snapshot = NoSnapshot
        /\ cliPc # "wrote"
        /\ outFile = TextOfJson(PriorSnapshot)

C22_AbortFrame ==
    CredentialsMissing => (outFile' = outFile /\ (hPc = "startup" => hPc' = "aborted"))

C22_StartupAbort == [](C22_AbortNoRequest) /\ [][C22_AbortFrame]_vars

\* the token is set but neither workspace variable is: the process ended
\* at the startup check with the previous artifact untouched
C22_Witness ==
    /\ env = EnvOf(sSet, Absent, Absent)
    /\ hPc = "aborted"
    /\ cliPc = "exit1"
    /\ outFile = TextOfJson(PriorSnapshot)

MessagesOfFile(file) ==
    IF file.kind = "json" /\ file.value # NoSnapshot THEN file.value.messages ELSE <<>>

\* C24: the artifact a run writes holds the snapshot of that run and nothing
\* else: each page whose body was fetched in the run contributes exactly the
\* entries of that body, and no message comes from a page that was not
\* fetched in the run, whatever the previous artifact held for it.
C24_SnapshotReplacesArtifact ==
    (cliPc = "wrote") =>
        /\ outFile.kind = "json"
        /\ outFile.value = snapshot
        /\ \A f \in fetches :
              SameEntries(FromPage(MessagesOfFile(outFile), f.page),
                          IF f.ok THEN EntriesOfBody[f.body] ELSE <<>>)
        /\ \A k \in 1..Len(MessagesOfFile(outFile)) :
              \E f \in fetches : f.ok /\ f.page.id = MessagesOfFile(outFile)[k].page_id

\* the previous artifact held a message of page 1 of document 1; the run had
\* a cutoff, listed that page as older than the cutoff, did not fetch it, and
\* wrote an artifact without any message of it
C24_Witness ==
    /\ cliPc = "wrote"
    /\ cutoff = 2
    /\ PageOf(1, 1, 1) \in ListedPages
    /\ PageOf(1, 1, 1) \notin FetchedPages
    /\ outFile # TextOfJson(PriorSnapshot)
    /\ \A k \in 1..Len(MessagesOfFile(outFile)) :
          MessagesOfFile(outFile)[k].page_id # <<1, 1>>

(***************************************************************************)
(* Progress of a run.  The steps of the program itself (the module body,   *)
(* a runner of mapLimit resuming, mapLimit returning, the CLI helper's     *)
(* then and catch) are taken as soon as they can be: weak fairness.  A     *)
(* response is a step of the remote store: v3Get awaits fetch(url,         *)
(* { headers }) with no timeout and no abort signal, so nothing in the     *)
(* program ends a request that is never answered, and there is no action   *)
(* for it.                                                                 *)
(***************************************************************************)
ProgramStep ==
    \/ ModuleLoads
    \/ \E r \in 1..Concurrency : HarvestRunnerResumes(r)
    \/ CliWrites
    \/ CliExits

\* the guard of BodiesReturn: every runner of mapLimit is done
BodiesReturnDue == hPc = "bodies" /\ poolPc = "running" /\ AllRunnersDone

\* BodiesReturn ends its own guard, so weak fairness of it is []<>~BodiesReturnDue
SpecRunLive == SpecRun /\ WF_vars(ProgramStep) /\ []<>(~BodiesReturnDue)

RunOver == cliPc \in {"wrote", "exit1"}

\* a request is in flight: listAllDocs, listPagesMeta or a fetchPageBody
RequestOutstanding ==
    \/ hPc \in {"listDocs", "listPages"}
    \/ hPc = "bodies" /\ InFlight # {}

\* C23: a request that is never answered is eventually abandoned, and every
\* run reaches completion (the artifact written, or the process exited).
C23_EveryRunCompletes == (RequestOutstanding ~> ~RequestOutstanding) /\ <>RunOver

(***************************************************************************)
(* The line loop of extractAllSystemEntries, one line at a time            *)
(*                                                                         *)
(* lLines is innerRaw.split(/\r?\n/); a step is one iteration of the loop. *)
(***************************************************************************)
MaxLines == 3

lnMessageA   == <<"m","e","s","s","a","g","e",":"," ","a">>
lnMessage    == <<"M","e","s","s","a","g","e",":">>
lnIndented   == <<" "," ","b"," "," ">>
lnEmpty      == <<>>
lnSpaces     == <<" "," "," ">>
lnNote       == <<"N","o","t","e",":"," ","x">>
lnUrl        == <<"h","t","t","p","s",":","/","/","e",".","c","/","p">>
lnName       == <<" ","n","a","m","e"," ","="," ","N",";">>
lnText       == <<"c",","," ","d">>

\* the lines a block is made of in the runs explored
RawLines == {lnMessageA, lnMessage, lnIndented, lnEmpty, lnSpaces,
             lnNote, lnUrl, lnName, lnText}

LineSeqs == UNION { [1..n -> RawLines] : n \in 1..MaxLines }

\* const obj = {}; let currentKey = null;
InitScan ==
    /\ lLines \in LineSeqs
    /\ lIdx = 0
    /\ lObj = <<>>
    /\ lKey = Absent
    /\ lPrev = [obj |-> <<>>, currentKey |-> Absent]
    /\ CollectIdle /\ env = NoEnv /\ LateIdle
    /\ BackoffIdle /\ PoolIdle /\ ParseIdle /\ HarvestIdle
    /\ TextIdle /\ FetchIdle /\ ServeIdle

\* for (const rawLine of innerRaw.split(/\r?\n/)) { ... }: one iteration
ScanStep ==
    /\ lIdx < Len(lLines)
    /\ LET st == ScanLine([obj |-> lObj, currentKey |-> lKey], ClassifyLine(lLines[lIdx + 1]))
       IN /\ lObj' = st.obj
          /\ lKey' = st.currentKey
    /\ lPrev' = [obj |-> lObj, currentKey |-> lKey]
    /\ lIdx' = lIdx + 1
    /\ UNCHANGED <<lLines, cvars, env, zvars, bvars, mvars, pvars, hvars, xvars>>

NextScan == ScanStep

SpecScan == InitScan /\ [][NextScan]_vars

\* the key lines among RawLines, with the key and the value each one sets
kNote  == <<"n","o","t","e">>
kHttps == <<"h","t","t","p","s">>

KeyLineTable ==
    { [raw |-> lnMessageA, key |-> kMessage, val |-> <<"a">>],
      [raw |-> lnMessage,  key |-> kMessage, val |-> <<>>],
      [raw |-> lnNote,     key |-> kNote,    val |-> <<"x">>],
      [raw |-> lnUrl,      key |-> kHttps,   val |-> <<"/","/","e",".","c","/","p">>],
      [raw |-> lnName,     key |-> kName,    val |-> <<"N">>] }

IsKeyLine(raw) == \E t \in KeyLineTable : t.raw = raw

KeyOfLine(raw) == (CHOOSE t \in KeyLineTable : t.raw = raw).key

ValOfLine(raw) == (CHOOSE t \in KeyLineTable : t.raw = raw).val

IsBlankLine(raw) == raw \in {lnEmpty, lnSpaces}

\* the key of the last key line among the first n lines; Absent when none
LastKeyLine(n) == FirstOf({ 0 - k : k \in {j \in 1..n : IsKeyLine(lLines[j])} })

LastKey(n) == IF LastKeyLine(n) = 0 THEN Absent ELSE KeyOfLine(lLines[0 - LastKeyLine(n)])

\* the message so far; "" when there is none
MessageIn(obj) == IF kMessage \in DOMAIN obj THEN obj[kMessage] ELSE <<>>

EndsWith(s, t) == Len(s) >= Len(t) /\ SubSeq(s, Len(s) - Len(t) + 1, Len(s)) = t

\* the line consumed last
LastLine == lLines[lIdx]

\* C25: the parser accumulates the message exactly when the last key line
\* so far had the key message; in that state a line that is neither blank
\* nor a key line is appended to the message as it stands, untrimmed; a key
\* line with another key (Note: x, https://...) sets that key to its value,
\* leaves the message as it was and ends the accumulation.
C25_TwoStateParser ==
    /\ lKey = LastKey(lIdx)
    /\ (lIdx >= 1 /\ IsKeyLine(LastLine) /\ KeyOfLine(LastLine) # kMessage) =>
          /\ lKey # kMessage
          /\ lObj[KeyOfLine(LastLine)] = ValOfLine(LastLine)
          /\ MessageIn(lObj) = MessageIn(lPrev.obj)
          /\ (kMessage \in DOMAIN lObj) = (kMessage \in DOMAIN lPrev.obj)
    /\ (lIdx >= 1 /\ IsKeyLine(LastLine) /\ KeyOfLine(LastLine) = kMessage) =>
          /\ lKey = kMessage
          /\ MessageIn(lObj) = MessageIn(lPrev.obj) \o ValOfLine(LastLine)
    /\ (lIdx >= 1 /\ ~IsKeyLine(LastLine) /\ ~IsBlankLine(LastLine)
             /\ lPrev.currentKey = kMessage) =>
          /\ lKey = kMessage
          /\ EndsWith(MessageIn(lObj), LastLine)
          /\ Len(MessageIn(lObj)) \in { Len(MessageIn(lPrev.obj)) + Len(LastLine),
                                        Len(MessageIn(lPrev.obj)) + Len(LastLine) + 1 }

\* message: a, then an indented line, then Note: x
C25_Witness ==
    /\ lLines = <<lnMessageA, lnIndented, lnNote>>
    /\ lIdx = 3
    /\ lPrev.currentKey = kMessage
    /\ lKey = kNote
    /\ lObj[kNote] = <<"x">>
    /\ lObj[kMessage] = <<"a","\n"," "," ","b"," "," ">>

\* C26: while the current field is the message a blank line appends one
\* newline, and a line that is neither blank nor a key line is appended
\* after a newline, which is left out when the message is empty or ends with
\* a newline; while the current field is another one, or none, such lines
\* change no field.
C26_BlankAndContinuation ==
    (lIdx >= 1 /\ ~IsKeyLine(LastLine)) =>
        /\ lKey = lPrev.currentKey
        /\ IF lPrev.currentKey = kMessage
           THEN /\ DOMAIN lObj = DOMAIN lPrev.obj
                /\ \A k \in DOMAIN lObj : k # kMessage => lObj[k] = lPrev.obj[k]
                /\ LET before == MessageIn(lPrev.obj) IN
                   IF IsBlankLine(LastLine)
                   THEN lObj[kMessage] = before \o <<"\n">>
                   ELSE IF before = <<>> \/ before[Len(before)] = "\n"
                        THEN lObj[kMessage] = before \o LastLine
                        ELSE lObj[kMessage] = before \o <<"\n">> \o LastLine
           ELSE lObj = lPrev.obj

\* "Message:" with no value, a line of spaces, then a line of text: the
\* text follows the newline of the blank line with no second newline
C26_Witness ==
    /\ lLines = <<lnMessage, lnSpaces, lnText>>
    /\ lIdx = 3
    /\ lPrev.obj[kMessage] = <<"\n">>
    /\ lObj[kMessage] = <<"\n","c",","," ","d">>

(***************************************************************************)
(* extractAllSystemEntries on page bodies put together from delimiters,    *)
(* field lines, blank lines and whole blocks                               *)
(***************************************************************************)
MaxSegments == 4

sgOpen   == <<"[","s","y","s","t","e","m","]">>
sgClose  == <<"[","/","S","Y","S","T","E","M","]">>
sgBlockA == <<"[","s","y","s","t","e","m","]","n","a","m","e",":"," ","A","\n","[","/","S","Y","S","T","E","M","]">>
sgBlank  == <<" ","\n">>
sgStatus == <<"s","t","a","t","u","s",":"," ","e","r","r","o","r","\n">>
sgBlockB == <<"[","S","y","s","t","e","m","]","\n","n","a","m","e",":"," ","B","\n","m","e","s","s","a","g","e",":"," ","m","\n","[","/","s","y","s","t","e","m","]">>

Segments == {sgOpen, sgClose, sgBlank, sgStatus, sgBlockA, sgBlockB}

BodyTexts == { Concat(ps) : ps \in UNION { [1..n -> Segments] : n \in 0..MaxSegments } }

InitBodies ==
    /\ src \in BodyTexts
    /\ tPc = "start"
    /\ prep = <<>>
    /\ tOut = <<>>
    /\ BackoffIdle /\ PoolIdle /\ ParseIdle /\ HarvestIdle
    /\ FetchIdle /\ ServeIdle
    /\ OthersIdle

SpecBodies == InitBodies /\ [][NextText]_vars

\* C27: the message of every entry has no whitespace or newline at either
\* end.
C27_MessageTrimmed ==
    (tPc = "extracted") =>
        \A k \in 1..Len(tOut) : tOut[k].message = Trim(tOut[k].message)

\* the positions of the prepared text at which a delimiter stands
DelimitersAt(plain, w) ==
    { k \in 1..Len(plain) :
        /\ k + Len(w) - 1 <= Len(plain)
        /\ \A j \in 1..Len(w) : LowerChar(plain[k + j - 1]) = w[j] }

\* the delimiter pairs from position i on: the first opening delimiter with
\* the nearest closing delimiter after it, then the same after that pair
RECURSIVE PairsFrom(_, _)
PairsFrom(plain, i) ==
    LET o == FirstOf({k \in DelimitersAt(plain, wOpen) : k >= i}) IN
    IF o = 0 THEN <<>>
    ELSE LET c == FirstOf({k \in DelimitersAt(plain, wClose) : k >= o + Len(wOpen)}) IN
         IF c = 0 THEN <<>>
         ELSE <<[from |-> o + Len(wOpen), to |-> c - 1]>> \o PairsFrom(plain, c + Len(wClose))

Interior(plain, pair) == SubSeq(plain, pair.from, pair.to)

\* the entries of one block taken alone
InteriorEntries(plain, pair) == extractAllSystemEntries(<<LinesOf(Interior(plain, pair))>>)

RECURSIVE EntriesOfPairs(_, _)
EntriesOfPairs(plain, pairs) ==
    IF pairs = <<>> THEN <<>>
    ELSE InteriorEntries(plain, Head(pairs)) \o EntriesOfPairs(plain, Tail(pairs))

IsBlankText(t) == \A k \in 1..Len(t) : IsSpace(t[k])

\* C28: the entries of a body are the entries of its delimiter pairs, each
\* pair taken alone, in the order of the pairs; each pair gives at most one
\* entry, so k pairs give at most k; an opening delimiter with no closing
\* delimiter after it gives none; the text outside the pairs changes nothing.
C28_NonGreedyPairs ==
    (tPc = "extracted") =>
        LET plain == prepareSystemSource(src)
            pairs == PairsFrom(plain, 1)
        IN /\ tOut = EntriesOfPairs(plain, pairs)
           /\ Len(tOut) <= Len(pairs)
           /\ \A j \in 1..Len(pairs) : Len(InteriorEntries(plain, pairs[j])) <= 1
           /\ DelimitersAt(plain, wClose) = {} => tOut = <<>>

\* a status line outside any block, the block named A, the status line
\* again, the block named B
C28_Witness ==
    /\ tPc = "extracted"
    /\ src = sgStatus \o sgBlockA \o sgStatus \o sgBlockB
    /\ Len(tOut) = 2
    /\ tOut[1].name = <<"A">> /\ tOut[1].status = "ok"
    /\ tOut[2].name = <<"B">> /\ tOut[2].status = "ok"

\* C29: a pair whose interior is blank gives no entry, and the entries of
\* the body are those of the other pairs, in order.
C29_EmptyBlockSkipped ==
    (tPc = "extracted") =>
        LET plain == prepareSystemSource(src)
            pairs == PairsFrom(plain, 1)
        IN /\ \A j \in 1..Len(pairs) :
                 IsBlankText(Interior(plain, pairs[j])) => InteriorEntries(plain, pairs[j]) = <<>>
           /\ tOut = EntriesOfPairs(plain,
                        SelectSeq(pairs, LAMBDA pr : ~IsBlankText(Interior(plain, pr))))

\* a block holding a blank line only, then the block named B
C29_Witness ==
    /\ tPc = "extracted"
    /\ src = sgOpen \o sgBlank \o sgClose \o sgBlockB
    /\ Len(tOut) = 1
    /\ tOut[1].name = <<"B">>

====
